---------------------------- MODULE Spec2Model ----------------------------
(***************************************************************************)
(* A model of the yookassa-tax-bot: the registry parser                    *)
(* (bot/csv_parser.py), the SQLite store (bot/database.py), the ingestion  *)
(* cycle (bot/imap_client.py) and its two callers, the daily scheduler     *)
(* (bot/scheduler.py) and the Telegram handlers (bot/handlers.py).         *)
(*                                                                         *)
(* Text is modelled at token level: a text is a sequence of lines, a line  *)
(* a sequence of tokens.  ";" is the csv delimiter, ":" the colon and " "  *)
(* a blank.  Amounts are integers (kopecks) instead of floats.             *)
(***************************************************************************)
EXTENDS Integers, Sequences, FiniteSets, TLC

(***************************************************************************)
(* Tokens of the registry format.                                          *)
(***************************************************************************)
\* "Дата платежей"
DateLabel == "DatePlatezhey"
\* "Идентификатор платежа"
IdHeader == "IdentifikatorPlatezha"
\* "Сумма платежа"
AmountHeader == "SummaPlatezha"
\* "Сумма комиссии без НДС"
CommissionHeader == "SummaKomissii"
\* "Время платежа"
TimeHeader == "VremyaPlatezha"
\* "Описание"
DescriptionHeader == "Opisanie"
\* "Тип платежа"
TypeHeader == "TipPlatezha"
\* "Валюта платежа"
CurrencyHeader == "ValyutaPlatezha"
\* "Сумма принятых платежей"
SumMarker == "SummaPrinyatyh"
\* "Число платежей"
CountMarker == "ChisloPlatezhey"

\* Python's None as the result of a failed parse.
None == [none |-> TRUE]

\* Python's None as the value of a missing cell (DictReader's restval).
NoneCell == <<"<None>">>

\* An exception raised where a value was expected.
Raised(e) == [error |-> e]

\* The texts float() accepts once "," is replaced by "." and blanks are
\* removed, as token sequences without their blanks, with their value in
\* kopecks.
NumValue ==
  [t \in {<<"0">>, <<"100,00">>, <<"250,50">>, <<"300,00">>, <<"1", "234,56">>} |->
     CASE t = <<"0">> -> 0
       [] t = <<"100,00">> -> 10000
       [] t = <<"250,50">> -> 25050
       [] t = <<"300,00">> -> 30000
       [] t = <<"1", "234,56">> -> 123456]

(***************************************************************************)
(* String helpers, on token sequences.                                     *)
(***************************************************************************)
Contains(line, tok) == \E i \in DOMAIN line : line[i] = tok

RECURSIVE LStrip(_)
LStrip(s) == IF s # <<>> /\ Head(s) = " " THEN LStrip(Tail(s)) ELSE s

RECURSIVE RStrip(_)
RStrip(s) ==
  IF s # <<>> /\ s[Len(s)] = " " THEN RStrip(SubSeq(s, 1, Len(s) - 1)) ELSE s

\* str.strip()
Strip(s) == RStrip(LStrip(s))

\* str.replace(" ", "")
RemoveBlanks(s) == SelectSeq(s, LAMBDA t : t # " ")

\* The index of the first occurrence of tok in s, 0 when there is none.
FirstIndex(s, tok) ==
  IF Contains(s, tok)
    THEN CHOOSE i \in DOMAIN s : s[i] = tok /\ \A j \in 1..(i - 1) : s[j] # tok
    ELSE 0

\* line.split(sep): the pieces between the occurrences of sep.
RECURSIVE Split(_, _)
Split(s, sep) ==
  LET i == FirstIndex(s, sep)
  IN  IF i = 0 THEN <<s>>
      ELSE <<SubSeq(s, 1, i - 1)>> \o Split(SubSeq(s, i + 1, Len(s)), sep)

\* content.strip().split("\n"): blank lines at both ends are dropped.
RECURSIVE StripLines(_)
StripLines(ls) ==
  IF ls # <<>> /\ RemoveBlanks(Head(ls)) = <<>> THEN StripLines(Tail(ls))
  ELSE IF ls # <<>> /\ RemoveBlanks(ls[Len(ls)]) = <<>>
    THEN StripLines(SubSeq(ls, 1, Len(ls) - 1))
  ELSE IF ls = <<>> THEN << <<>> >>
  ELSE ls

(***************************************************************************)
(* csv.DictReader over the lines from the header on, delimiter ";".        *)
(***************************************************************************)
\* The last column whose name is key, 0 when the header has none: in
\* dict(zip(fieldnames, row)) a later column of the same name wins.
KeyIndex(fieldnames, key) ==
  IF \E k \in DOMAIN fieldnames : fieldnames[k] = key
    THEN CHOOSE k \in DOMAIN fieldnames :
           /\ fieldnames[k] = key
           /\ \A j \in DOMAIN fieldnames : fieldnames[j] = key => j <= k
    ELSE 0

\* row.get(key, default): the default only when the header lacks the column;
\* a row shorter than the header holds None (restval) for the missing cells.
RowGet(fieldnames, cells, key, default) ==
  LET k == KeyIndex(fieldnames, key)
  IN  IF k = 0 THEN default
      ELSE IF k <= Len(cells) THEN cells[k]
      ELSE NoneCell

\* float(text.replace(",", ".")): a parse that keeps the blanks of the text.
ParseFloatKeepBlanks(text) ==
  IF text \in DOMAIN NumValue
    THEN [value |-> NumValue[text]]
    ELSE Raised("ValueError")

\* float(text.replace(",", ".").replace(" ", "")): ValueError when the text
\* is no number.
ParseFloat(text) ==
  IF RemoveBlanks(text) \in DOMAIN NumValue
    THEN [value |-> NumValue[RemoveBlanks(text)]]
    ELSE Raised("ValueError")

\* Amounts parsed one by one: a commission that is no number counts as 0 and
\* the row is kept.
ParseAmountsLenient(payment_id, amount, comm, payment_time, description, payment_type, currency) ==
  IF amount = Raised("ValueError") THEN Raised("ValueError")
  ELSE IF currency = NoneCell THEN Raised("AttributeError")
  ELSE [payment |-> [payment_id |-> Strip(payment_id),
                     amount |-> amount.value,
                     currency |-> Strip(currency),
                     payment_time |-> Strip(payment_time),
                     description |-> Strip(description),
                     payment_type |-> Strip(payment_type)],
        comm |-> IF comm = Raised("ValueError") THEN 0 ELSE comm.value]

\* The amounts of a row whose cells are all there: the payment with its
\* commission, or ValueError when an amount is no number.
ParseAmounts(payment_id, amount, comm, payment_time, description, payment_type, currency) ==
  IF amount = Raised("ValueError") \/ comm = Raised("ValueError")
    THEN Raised("ValueError")
  ELSE IF currency = NoneCell THEN Raised("AttributeError")
  ELSE [payment |-> [payment_id |-> Strip(payment_id),
                     amount |-> amount.value,
                     currency |-> Strip(currency),
                     payment_time |-> Strip(payment_time),
                     description |-> Strip(description),
                     payment_type |-> Strip(payment_type)],
        comm |-> comm.value]

\* The fields of a row as row.get returned them: .strip() of None raises
\* AttributeError before any amount is parsed.
ParseFields(payment_id, amount_str, commission_str, payment_time, description, payment_type, currency) ==
  IF NoneCell \in {payment_id, amount_str, commission_str, payment_time,
                   description, payment_type}
    THEN Raised("AttributeError")
  ELSE ParseAmounts(payment_id, ParseFloat(Strip(amount_str)),
                    ParseFloat(Strip(commission_str)), payment_time,
                    description, payment_type, currency)

\* The body of the try block for one row: the payment with its commission,
\* ValueError (the row is skipped) or AttributeError (.strip() of None, which
\* the row's except clause does not catch).
ParseRow(fieldnames, cells) ==
  ParseFields(RowGet(fieldnames, cells, <<IdHeader>>, <<>>),
              RowGet(fieldnames, cells, <<AmountHeader>>, <<"0">>),
              RowGet(fieldnames, cells, <<CommissionHeader>>, <<"0">>),
              RowGet(fieldnames, cells, <<TimeHeader>>, <<>>),
              RowGet(fieldnames, cells, <<DescriptionHeader>>, <<>>),
              RowGet(fieldnames, cells, <<TypeHeader>>, <<>>),
              RowGet(fieldnames, cells, <<CurrencyHeader>>, <<"RUB">>))

\* The loop over reader: acc holds payments, total_amount and commission.
\* The result is the accumulator at the summary row or at the end of the
\* input, or None when an exception leaves the loop.
RECURSIVE ReadRows(_, _, _, _)

\* A loop body whose ValueError leaves the loop with what was read so far.
AcceptRowStopOnError(fieldnames, rows, i, acc, parsed) ==
  IF parsed = Raised("AttributeError") THEN None
  ELSE IF parsed = Raised("ValueError") THEN acc
  ELSE ReadRows(fieldnames, rows, i + 1,
         [payments |-> Append(acc.payments, parsed.payment),
          total_amount |-> acc.total_amount + parsed.payment.amount,
          commission |-> acc.commission + parsed.comm])

\* The end of the loop body for a row with an identifier: the row is added,
\* skipped on ValueError, or its AttributeError ends the parse.
AcceptRow(fieldnames, rows, i, acc, parsed) ==
  IF parsed = Raised("AttributeError") THEN None
  ELSE IF parsed = Raised("ValueError")
    THEN ReadRows(fieldnames, rows, i + 1, acc)
  ELSE ReadRows(fieldnames, rows, i + 1,
         [payments |-> Append(acc.payments, parsed.payment),
          total_amount |-> acc.total_amount + parsed.payment.amount,
          commission |-> acc.commission + parsed.comm])

\* A loop body that skips a summary row and reads on.
ReadCellsSkipSummary(fieldnames, rows, i, acc, cells, first_col, row_id) ==
  IF first_col = NoneCell THEN None
  ELSE IF Contains(first_col, SumMarker) \/ Contains(first_col, CountMarker)
    THEN ReadRows(fieldnames, rows, i + 1, acc)
  ELSE IF row_id = NoneCell \/ row_id = <<>>
    THEN ReadRows(fieldnames, rows, i + 1, acc)
  ELSE AcceptRow(fieldnames, rows, i, acc, ParseRow(fieldnames, cells))

\* A loop body that reads a row with an empty identifier as a payment.
ReadCellsNoSkip(fieldnames, rows, i, acc, cells, first_col, row_id) ==
  IF first_col = NoneCell THEN None
  ELSE IF Contains(first_col, SumMarker) \/ Contains(first_col, CountMarker)
    THEN acc
  ELSE IF row_id = NoneCell
    THEN ReadRows(fieldnames, rows, i + 1, acc)
  ELSE AcceptRow(fieldnames, rows, i, acc, ParseRow(fieldnames, cells))

\* The loop body for the cells of row i: stop at a summary row, skip a row
\* without identifier.
ReadCells(fieldnames, rows, i, acc, cells, first_col, row_id) ==
  IF first_col = NoneCell THEN None
  ELSE IF Contains(first_col, SumMarker) \/ Contains(first_col, CountMarker)
    THEN acc
  ELSE IF row_id = NoneCell \/ row_id = <<>>
    THEN ReadRows(fieldnames, rows, i + 1, acc)
  ELSE AcceptRow(fieldnames, rows, i, acc, ParseRow(fieldnames, cells))

\* The dict of row i: its first value and its identifier.
ReadRow(fieldnames, rows, i, acc, cells) ==
  ReadCells(fieldnames, rows, i, acc, cells,
            RowGet(fieldnames, cells, fieldnames[1], <<>>),
            RowGet(fieldnames, cells, <<IdHeader>>, NoneCell))

ReadRows(fieldnames, rows, i, acc) ==
  IF i > Len(rows) THEN acc
  ELSE IF rows[i] = <<>> THEN ReadRows(fieldnames, rows, i + 1, acc)
  ELSE ReadRow(fieldnames, rows, i, acc, Split(rows[i], ";"))

(***************************************************************************)
(* parse_yookassa_csv                                                      *)
(***************************************************************************)
\* The window of leading lines searched for the date label.
DateWindow == 5

\* The fewest lines a registry has.
MinLines == 4

Min(a, b) == IF a < b THEN a ELSE b

\* A date scan over every line of the text.
ExtractDateAnyLine(lines) ==
  LET hit(i) == Contains(lines[i], DateLabel) /\ Contains(lines[i], ":")
  IN  IF \E i \in DOMAIN lines : hit(i)
        THEN LET i == CHOOSE i \in DOMAIN lines : hit(i) /\ \A j \in 1..(i - 1) : ~hit(j)
                 line == lines[i]
             IN  Strip(SubSeq(line, FirstIndex(line, ":") + 1, Len(line)))
        ELSE <<"unknown">>

\* A date scan that takes the text after the last colon of the line.
ExtractDateLastColon(lines) ==
  LET hit(i) == Contains(lines[i], DateLabel) /\ Contains(lines[i], ":")
      window == 1..Min(DateWindow, Len(lines))
  IN  IF \E i \in window : hit(i)
        THEN LET i == CHOOSE i \in window : hit(i) /\ \A j \in 1..(i - 1) : ~hit(j)
                 line == lines[i]
                 last == CHOOSE k \in DOMAIN line :
                           line[k] = ":" /\ \A j \in (k + 1)..Len(line) : line[j] # ":"
             IN  Strip(SubSeq(line, last + 1, Len(line)))
        ELSE <<"unknown">>

\* The date: the stripped text after the first colon of the first line of
\* the window that holds the label and a colon, else "unknown".
ExtractDate(lines) ==
  LET hit(i) == Contains(lines[i], DateLabel) /\ Contains(lines[i], ":")
      window == 1..Min(DateWindow, Len(lines))
  IN  IF \E i \in window : hit(i)
        THEN LET i == CHOOSE i \in window : hit(i) /\ \A j \in 1..(i - 1) : ~hit(j)
                 line == lines[i]
             IN  Strip(SubSeq(line, FirstIndex(line, ":") + 1, Len(line)))
        ELSE <<"unknown">>

\* The index of the header row, 0 when no line holds the marker.
HeaderIndex(lines) ==
  IF \E i \in DOMAIN lines : Contains(lines[i], IdHeader)
    THEN CHOOSE i \in DOMAIN lines :
           Contains(lines[i], IdHeader)
           /\ \A j \in 1..(i - 1) : ~Contains(lines[j], IdHeader)
    ELSE 0

\* The returned dict, or None when the loop over the rows ended in an
\* exception.
ParseResult(date_str, acc) ==
  IF acc = None THEN None
  ELSE [date |-> date_str,
        total_amount |-> acc.total_amount,
        commission |-> acc.commission,
        payments_count |-> Len(acc.payments),
        payments |-> acc.payments]

\* The DictReader over the lines from the header row on.
ParseFromHeader(lines, header_idx) ==
  IF header_idx = 0 THEN None
  ELSE ParseResult(ExtractDate(lines),
                   ReadRows(Split(lines[header_idx], ";"),
                            SubSeq(lines, header_idx + 1, Len(lines)), 1,
                            [payments |-> <<>>, total_amount |-> 0, commission |-> 0]))

\* A parse without the check of the number of lines.
ParseLinesAnyLength(lines) == ParseFromHeader(lines, HeaderIndex(lines))

ParseLines(lines) ==
  IF Len(lines) < MinLines THEN None
  ELSE ParseFromHeader(lines, HeaderIndex(lines))

parse_yookassa_csv(content) == ParseLines(StripLines(content))

(***************************************************************************)
(* The mail the model delivers.  Attachment contents are named; Files      *)
(* gives the bytes of each: whether they decode as utf-8-sig and the text. *)
(***************************************************************************)
MetaLine == <<"Reestr">>
DateLine(d) == <<DateLabel, ":", " ", d>>
HeaderLine ==
  <<IdHeader, ";", AmountHeader, ";", CommissionHeader, ";", DescriptionHeader>>
DataRow(id, amount, comm) == <<id, ";">> \o amount \o <<";">> \o comm \o <<";", "vpn">>
SumLine == <<SumMarker, ";", "x">>
CountLine == <<CountMarker, ";", "x">>

Files ==
  [c \in {"regA", "regB", "regEmpty", "notes", "binary"} |->
     CASE c = "regA" ->
            [decodable |-> TRUE,
             text |-> <<MetaLine, DateLine("2026-01-15"), HeaderLine,
                        DataRow("p1", <<"100,00">>, <<"0">>),
                        DataRow("p2", <<"250,50">>, <<"0">>),
                        SumLine, CountLine>>]
       [] c = "regB" ->
            [decodable |-> TRUE,
             text |-> <<MetaLine, DateLine("2026-01-15"), HeaderLine,
                        DataRow("p3", <<"300,00">>, <<"0">>),
                        SumLine, CountLine>>]
       [] c = "regEmpty" ->
            [decodable |-> TRUE,
             text |-> <<MetaLine, DateLine("2026-01-16"), HeaderLine,
                        SumLine, CountLine>>]
       [] c = "notes" ->
            [decodable |-> TRUE,
             text |-> <<MetaLine, <<"a">>, <<"b">>, <<"c">>, <<"d">>>>]
       [] c = "binary" ->
            [decodable |-> FALSE, text |-> <<>>]]

\* The messages the IMAP search returns, in sequence-number order, for each
\* mailbox of the model.  "daily": two registries of one date, an empty
\* registry and a file that is no registry.  "resend": the same bytes sent
\* again, under the same name in another message and under another name.
Mailboxes ==
  [daily |->
     << [message_id |-> "m1",
         attachments |-> << [filename |-> "registry.csv", content |-> "regA"],
                            [filename |-> "notes.csv", content |-> "notes"] >>],
        [message_id |-> "m2",
         attachments |-> << [filename |-> "registry.csv", content |-> "regB"],
                            [filename |-> "empty.csv", content |-> "regEmpty"] >>] >>,
   resend |->
     << [message_id |-> "m1",
         attachments |-> << [filename |-> "registry.csv", content |-> "regA"] >>],
        [message_id |-> "m2",
         attachments |-> << [filename |-> "registry.csv", content |-> "regA"],
                            [filename |-> "copy.csv", content |-> "regA"] >>] >>,
   unreadable |->
     << [message_id |-> "m1",
         attachments |-> << [filename |-> "registry.csv", content |-> "regA"],
                            [filename |-> "scan.csv", content |-> "binary"] >>],
        [message_id |-> "m2",
         attachments |-> << [filename |-> "notes.csv", content |-> "notes"] >>] >>]

\* hashlib.sha256(content).hexdigest(): one digest per content.
sha256(content) == <<"sha256", content>>

\* The admins of ADMIN_IDS.
ADMIN_IDS == <<101, 102>>

\* The cycles the model starts in one run.
MaxCycles == 2

(***************************************************************************)
(* State.                                                                  *)
(***************************************************************************)
VARIABLES
  delivered,     \* the number of Inbox messages the mailbox holds
  db,            \* the committed content of the SQLite file
  txn,           \* the open write transaction of save_registry, or NoTxn
  cycle,         \* per caller: the position and locals of its ingestion cycle
  cycles,        \* the cycles started so far
  reply,         \* the last answer a handler gave to the operator
  ret_count,     \* history: per fingerprint, in how many returned results it was
  noop_marks,    \* history: the fingerprints a mark_processed found recorded
  confirm_calls, \* history: the dates passed to confirm_registry
  mailbox,       \* which of the Mailboxes the mail server holds
  csv_input,     \* the text handed to parse_yookassa_csv, as CsvText builds it
  parse_result,  \* what parse_yookassa_csv returned for it, or NotParsed
  answer,        \* the last query of the store: its call and what it returned
  update         \* the last Telegram update a handler was entered for

vars ==
  <<delivered, db, txn, cycle, cycles, reply, ret_count, noop_marks, confirm_calls,
    mailbox, csv_input, parse_result, answer, update>>

\* The callers of check_and_process: Scheduler._run_check and
\* callback_check_mail.
Callers == {"sched", "manual"}

NoTxn == [open |-> FALSE]

\* The parser was handed nothing, and has returned nothing yet.
NoInput == [pre |-> "", header |-> "", rows |-> <<>>]
NotParsed == [pending |-> TRUE]

\* No query of the store has been answered.
NoAnswer == [call |-> "none"]

\* No update has come in yet.
NoUpdate == [data |-> "none", user |-> 0, admitted |-> FALSE]

\* The messages of the mailbox of this run; the mailbox holds a prefix of
\* them.
Inbox == Mailboxes[mailbox]

(***************************************************************************)
(* Database: each operator maps a content of the SQLite file to the result *)
(* of the statement.  Timestamps (processed_at, created_at, last_check)    *)
(* are left out, last_check but for whether it is set.                     *)
(***************************************************************************)
\* Database.init on a fresh file: empty tables and the default stats row.
EmptyDb ==
  [processed_files |-> <<>>,
   stats |-> [last_check |-> FALSE, emails_processed |-> 0, files_processed |-> 0],
   registries |-> {},
   payments |-> {},
   seq_registries |-> 0,
   seq_payments |-> 0,
   settings |-> [key \in {"notify_empty_registries", "tax_description"} |-> "<None>"]]

\* A lookup whose parameters are bound in the wrong order: the file name is
\* compared with the message id, the message id with the file name.
is_processed_swapped(d, message_id, filename, file_hash) ==
  \E n \in DOMAIN d.processed_files :
    /\ d.processed_files[n].message_id = filename
    /\ d.processed_files[n].filename = message_id
    /\ d.processed_files[n].file_hash = file_hash

\* A lookup by content alone: SELECT 1 FROM processed_files WHERE
\* file_hash = ?
is_processed_by_hash(d, message_id, filename, file_hash) ==
  \E n \in DOMAIN d.processed_files :
    d.processed_files[n].file_hash = file_hash

\* SELECT 1 FROM processed_files WHERE message_id = ? AND filename = ? AND
\* file_hash = ?
is_processed(d, message_id, filename, file_hash) ==
  \E n \in DOMAIN d.processed_files :
    /\ d.processed_files[n].message_id = message_id
    /\ d.processed_files[n].filename = filename
    /\ d.processed_files[n].file_hash = file_hash

\* An insert into a table without the UNIQUE constraint: every call adds a
\* row.
mark_processed_append(d, message_id, filename, file_hash) ==
  [d EXCEPT !.processed_files =
     Append(@, [message_id |-> message_id, filename |-> filename,
                file_hash |-> file_hash])]

\* INSERT OR REPLACE INTO processed_files: the row of the triple, if any,
\* is deleted and a new row is added at the end of the table.
mark_processed_replace(d, message_id, filename, file_hash) ==
  [d EXCEPT !.processed_files =
     Append(SelectSeq(@, LAMBDA row :
                           ~(/\ row.message_id = message_id
                             /\ row.filename = filename
                             /\ row.file_hash = file_hash)),
            [message_id |-> message_id, filename |-> filename,
             file_hash |-> file_hash])]

\* INSERT OR IGNORE INTO processed_files: the UNIQUE(message_id, filename,
\* file_hash) conflict leaves the table as it is.
mark_processed(d, message_id, filename, file_hash) ==
  IF \E n \in DOMAIN d.processed_files :
       /\ d.processed_files[n].message_id = message_id
       /\ d.processed_files[n].filename = filename
       /\ d.processed_files[n].file_hash = file_hash
    THEN d
    ELSE [d EXCEPT !.processed_files =
            Append(@, [message_id |-> message_id, filename |-> filename,
                       file_hash |-> file_hash])]

\* An update that writes the counts of the cycle over the counters:
\* UPDATE stats SET emails_processed = ?, files_processed = ?
update_stats_overwrite(d, emails_count, files_count) ==
  [d EXCEPT !.stats = [last_check |-> TRUE,
                       emails_processed |-> emails_count,
                       files_processed |-> files_count]]

\* UPDATE stats SET last_check = ?, emails_processed = emails_processed + ?,
\* files_processed = files_processed + ? WHERE id = 1
update_stats(d, emails_count, files_count) ==
  [d EXCEPT !.stats = [last_check |-> TRUE,
                       emails_processed |-> @.emails_processed + emails_count,
                       files_processed |-> @.files_processed + files_count]]

\* The id an AUTOINCREMENT table gives a new row: one more than the largest
\* id the table ever held (sqlite_sequence), so no id is used twice.
NextRegistryId(d) == d.seq_registries + 1

\* An upsert that updates the row of the date in place (ON CONFLICT(date) DO
\* UPDATE) instead of replacing it: the row keeps its id.
UpsertRegistryInPlace(d, data) ==
  LET kept == {r \in d.registries : r.date = data.date}
      id == IF kept = {} THEN NextRegistryId(d) ELSE (CHOOSE r \in kept : TRUE).id
  IN  [d EXCEPT
         !.registries =
            {r \in @ : r.date # data.date}
            \cup {[id |-> id,
                   date |-> data.date,
                   total_amount |-> data.total_amount,
                   commission |-> data.commission,
                   payments_count |-> data.payments_count,
                   tax_file |-> data.tax_file,
                   payments_file |-> data.payments_file]},
         !.seq_registries = IF id > @ THEN id ELSE @]

\* The first statement of save_registry, INSERT OR REPLACE INTO registries:
\* the row of the same date, if any, is deleted (UNIQUE(date)) and the new
\* row gets a fresh id.  The payments of the deleted row are not touched:
\* the foreign key has no ON DELETE action and foreign keys are not enabled.
InsertOrReplaceRegistry(d, data) ==
  [d EXCEPT
     !.registries =
        {r \in @ : r.date # data.date}
        \cup {[id |-> NextRegistryId(d),
               date |-> data.date,
               total_amount |-> data.total_amount,
               commission |-> data.commission,
               payments_count |-> data.payments_count,
               tax_file |-> data.tax_file,
               payments_file |-> data.payments_file]},
     !.seq_registries = IF NextRegistryId(d) > @ THEN NextRegistryId(d) ELSE @]

\* INSERT INTO payments, one row of the loop of save_registry.
InsertPayment(d, registry_id, payment) ==
  [d EXCEPT
     !.payments = @ \cup {[id |-> d.seq_payments + 1,
                           registry_id |-> registry_id,
                           payment_id |-> payment.payment_id,
                           amount |-> payment.amount,
                           currency |-> payment.currency,
                           payment_time |-> payment.payment_time,
                           description |-> payment.description,
                           payment_type |-> payment.payment_type]},
     !.seq_payments = @ + 1]

\* A connection in autocommit mode: every statement is in the file at once.
AfterExecuteAutocommit(committed, working) == working

\* What the other connections read after a statement of an open transaction:
\* sqlite3 opens a transaction before the first INSERT and save_registry
\* commits once, after the last one, so the file is unchanged until then.
AfterExecute(committed, working) == committed

\* get_registry: the row of the date with its payments, or None.
get_registry(d, date) ==
  IF \E r \in d.registries : r.date = date
    THEN LET row == CHOOSE r \in d.registries : r.date = date
         IN  [registry |-> row,
              payments |-> {q \in d.payments : q.registry_id = row.id}]
    ELSE None

\* The dates of the model in the order of their text (ORDER BY date).
DateOrder == << <<"2026-01-15">>, <<"2026-01-16">>, <<"unknown">> >>

\* The characters of the date texts the model stores.
Chars ==
  ("2025-12-31" :> <<"2", "0", "2", "5", "-", "1", "2", "-", "3", "1">>)
  @@ ("2026-01-15" :> <<"2", "0", "2", "6", "-", "0", "1", "-", "1", "5">>)
  @@ ("2026-01-16" :> <<"2", "0", "2", "6", "-", "0", "1", "-", "1", "6">>)
  @@ ("2026-02-01" :> <<"2", "0", "2", "6", "-", "0", "2", "-", "0", "1">>)
  @@ ("unknown" :> <<"u", "n", "k", "n", "o", "w", "n">>)

\* The code points of these characters.
Ord ==
  ("-" :> 45) @@ ("0" :> 48) @@ ("1" :> 49) @@ ("2" :> 50) @@ ("3" :> 51)
  @@ ("4" :> 52) @@ ("5" :> 53) @@ ("6" :> 54) @@ ("7" :> 55) @@ ("8" :> 56)
  @@ ("9" :> 57) @@ ("k" :> 107) @@ ("n" :> 110) @@ ("o" :> 111)
  @@ ("u" :> 117) @@ ("w" :> 119)

\* The characters of a stored date.
TextOf(date) == Chars[date[1]]

\* a < b for two TEXT values in the BINARY collation of SQLite: the first
\* differing character decides, a proper prefix is smaller.
RECURSIVE TextLess(_, _)
TextLess(a, b) ==
  IF b = <<>> THEN FALSE
  ELSE IF a = <<>> THEN TRUE
  ELSE IF Ord[Head(a)] # Ord[Head(b)] THEN Ord[Head(a)] < Ord[Head(b)]
  ELSE TextLess(Tail(a), Tail(b))

\* The place of each date text in ORDER BY date.
DateRanks ==
  [t \in DOMAIN Chars |->
     1 + Cardinality({u \in DOMAIN Chars : TextLess(Chars[u], Chars[t])})]

DateRank(date) == DateRanks[date[1]]

\* The rows sorted by date, earliest first: ORDER BY date.
RECURSIVE OrderByDateAsc(_)
OrderByDateAsc(rows) ==
  IF rows = {} THEN <<>>
  ELSE LET low == CHOOSE r \in rows :
                    \A q \in rows : DateRank(r.date) <= DateRank(q.date)
       IN  <<low>> \o OrderByDateAsc(rows \ {low})

\* The rows sorted by date, latest first.
RECURSIVE OrderByDateDesc(_)
OrderByDateDesc(rows) ==
  IF rows = {} THEN <<>>
  ELSE LET top == CHOOSE r \in rows :
                    \A q \in rows : DateRank(q.date) <= DateRank(r.date)
       IN  <<top>> \o OrderByDateDesc(rows \ {top})

\* SELECT * FROM registries ORDER BY date DESC LIMIT ?
get_history(d, limit) ==
  LET sorted == OrderByDateDesc(d.registries)
  IN  SubSeq(sorted, 1, Min(limit, Len(sorted)))

\* A column of the row an aggregate query returns: NULL or an integer.
SqlNull == [null |-> TRUE]
SqlInt(n) == [value |-> n]

\* The decimal digits of a natural number.
DigitChar == <<"0", "1", "2", "3", "4", "5", "6", "7", "8", "9">>

RECURSIVE DecimalChars(_)
DecimalChars(n) ==
  IF n < 10 THEN <<DigitChar[n + 1]>>
  ELSE DecimalChars(n \div 10) \o <<DigitChar[(n % 10) + 1]>>

\* The format specs 04d and 02d: zeros in front up to the width.
RECURSIVE ZeroPad(_, _)
ZeroPad(text, width) ==
  IF Len(text) >= width THEN text ELSE ZeroPad(<<"0">> \o text, width)

\* A month pattern without the zero in front of the month: f"{year}-{month}-%".
MonthPatternNoPad(year, month) ==
  DecimalChars(year) \o <<"-">> \o DecimalChars(month) \o <<"-">>

\* f"{year:04d}-{month:02d}-%" and f"{year:04d}-%", without the final %.
MonthPattern(year, month) ==
  ZeroPad(DecimalChars(year), 4) \o <<"-">> \o ZeroPad(DecimalChars(month), 2) \o <<"-">>
YearPattern(year) == ZeroPad(DecimalChars(year), 4) \o <<"-">>

\* date LIKE 'prefix%': the text starts with the prefix.
Like(text, prefix) ==
  /\ Len(text) >= Len(prefix)
  /\ SubSeq(text, 1, Len(prefix)) = prefix

\* The sum of a column over rows.
RECURSIVE SumCol(_, _)
SumCol(rows, col) ==
  IF rows = {} THEN 0
  ELSE LET r == CHOOSE r \in rows : TRUE
       IN  r[col] + SumCol(rows \ {r}, col)

\* SUM(col): NULL when no row matches.
SqlSum(rows, col) == IF rows = {} THEN SqlNull ELSE SqlInt(SumCol(rows, col))

\* COUNT(*) and COUNT(CASE WHEN total_amount > 0 THEN 1 END): never NULL.
SqlCount(rows) == SqlInt(Cardinality(rows))
SqlCountIncome(rows) == SqlInt(Cardinality({r \in rows : r.total_amount > 0}))

\* A result that hands the columns on as the query returned them.
KeepNull(v) == v

\* row[k] or 0: None and 0 both give 0.
OrZero(v) == IF v = SqlNull \/ v = SqlInt(0) THEN SqlInt(0) ELSE v

\* The dict get_monthly_stats builds from the row of its query.
MonthlyDict(rows) ==
  [registries_count |-> OrZero(SqlCount(rows)),
   total_income |-> OrZero(SqlSum(rows, "total_amount")),
   total_commission |-> OrZero(SqlSum(rows, "commission")),
   total_payments |-> OrZero(SqlSum(rows, "payments_count")),
   days_with_income |-> OrZero(SqlCountIncome(rows))]

\* get_monthly_stats: ... FROM registries WHERE date LIKE 'YYYY-MM-%'
get_monthly_stats(d, year, month) ==
  MonthlyDict({r \in d.registries : Like(TextOf(r.date), MonthPattern(year, month))})

\* The dict get_yearly_stats builds from the row of its query.
YearlyDict(rows) ==
  [total_income |-> OrZero(SqlSum(rows, "total_amount")),
   total_commission |-> OrZero(SqlSum(rows, "commission")),
   total_payments |-> OrZero(SqlSum(rows, "payments_count"))]

\* A yearly query without its WHERE clause.
get_yearly_stats_unfiltered(d, year) == YearlyDict(d.registries)

\* get_yearly_stats: ... FROM registries WHERE date LIKE 'YYYY-%'
get_yearly_stats(d, year) ==
  YearlyDict({r \in d.registries : Like(TextOf(r.date), YearPattern(year))})

\* get_all_time_stats: ... FROM registries
get_all_time_stats(d) ==
  [registries_count |-> OrZero(SqlCount(d.registries)),
   total_income |-> OrZero(SqlSum(d.registries, "total_amount")),
   total_commission |-> OrZero(SqlSum(d.registries, "commission")),
   total_payments |-> OrZero(SqlSum(d.registries, "payments_count"))]

\* SELECT value FROM settings WHERE key = ?: "<None>" when there is no row.
get_setting(d, key) == d.settings[key]

\* INSERT OR REPLACE INTO settings
set_setting(d, key, value) == [d EXCEPT !.settings[key] = value]

\* Database has no get_pending_registries: the call raises AttributeError.
get_pending_registries(d) == Raised("AttributeError")

\* Database has no confirm_registry: the call raises AttributeError and the
\* file is as it was.
confirm_registry(d, date) == [db |-> d, raised |-> "AttributeError"]

\* reg["status"] on a row of get_history: the registries table has no status
\* column, so the key is missing.
RowStatus(row) == IF "status" \in DOMAIN row THEN row.status ELSE "KeyError"

(***************************************************************************)
(* IMAPClient                                                              *)
(***************************************************************************)
\* The result of the parser with the paths of the tax file and the payments
\* file, or None when the parser gave None or writing a file raised.
WithFiles(result, io_ok) ==
  IF result = None THEN None
  ELSE IF ~io_ok THEN None
  ELSE [date |-> result.date,
        total_amount |-> result.total_amount,
        commission |-> result.commission,
        payments_count |-> result.payments_count,
        payments |-> result.payments,
        tax_file |-> <<"tax_ready_">> \o result.date,
        payments_file |-> <<"payments_">> \o result.date]

\* A _process_csv that decodes with errors="replace" and hands on an empty
\* registry of unknown date for a text that does not parse.
process_csv_lenient(content, io_ok) ==
  IF ~Files[content].decodable \/ parse_yookassa_csv(Files[content].text) = None
    THEN WithFiles([date |-> <<"unknown">>, total_amount |-> 0, commission |-> 0,
                    payments_count |-> 0, payments |-> <<>>], io_ok)
  ELSE WithFiles(parse_yookassa_csv(Files[content].text), io_ok)

\* _process_csv: the parsed registry with the paths of the two files
\* written for it, or None when the bytes do not decode, the parser
\* returns None or writing a file fails (io_ok false).
process_csv(content, io_ok) ==
  IF ~Files[content].decodable THEN None
  ELSE WithFiles(parse_yookassa_csv(Files[content].text), io_ok)

\* The (message id, file name, hash) of attachment j of message i.
Fingerprint(i, j) ==
  [message_id |-> Inbox[i].message_id,
   filename |-> Inbox[i].attachments[j].filename,
   file_hash |-> sha256(Inbox[i].attachments[j].content)]

AllFingerprints ==
  UNION {{Fingerprint(i, j) : j \in DOMAIN Inbox[i].attachments} : i \in DOMAIN Inbox}

\* The locals of a caller that runs no cycle.
IdleCycle ==
  [pc |-> "idle", n |-> 0, i |-> 0, j |-> 0, results |-> <<>>,
   a |-> 0, r |-> 0, k |-> 0, registry_id |-> 0]

\* The caller is done: its locals are gone.
Idle(c) ==
  [c EXCEPT !.pc = "idle", !.n = 0, !.i = 0, !.j = 0, !.results = <<>>,
            !.a = 0, !.r = 0, !.k = 0, !.registry_id = 0]

\* The next message of the loop, or the end of the loop.
AdvanceMsg(c) ==
  IF c.i < c.n THEN [c EXCEPT !.pc = "fetch", !.i = @ + 1, !.j = 0]
  ELSE [c EXCEPT !.pc = "finish", !.i = 0, !.j = 0]

\* The next attachment of the message, or the next message.
AdvanceAtt(c) ==
  IF c.j < Len(Inbox[c.i].attachments) THEN [c EXCEPT !.pc = "check", !.j = @ + 1]
  ELSE AdvanceMsg(c)

InFlight(p) == cycle[p].pc # "idle"

\* A caller enters check_and_process.
StartCycle(p) ==
  /\ cycle[p].pc = "idle"
  /\ cycles < MaxCycles
  /\ cycles' = cycles + 1
  /\ cycle' = [cycle EXCEPT ![p] = [IdleCycle EXCEPT !.pc = "connect"]]
  /\ UNCHANGED <<update, answer, mailbox, csv_input, parse_result, delivered, db, txn, reply, ret_count, noop_marks, confirm_calls>>

\* _connect and _search_messages: the messages of the mailbox.
Connect(p) ==
  /\ cycle[p].pc = "connect"
  /\ cycle' = [cycle EXCEPT ![p] =
                 IF delivered = 0 THEN [@ EXCEPT !.pc = "finish", !.n = 0]
                 ELSE [@ EXCEPT !.pc = "fetch", !.n = delivered, !.i = 1]]
  /\ UNCHANGED <<update, answer, mailbox, csv_input, parse_result, delivered, db, txn, cycles, reply, ret_count, noop_marks, confirm_calls>>

\* _connect or _search_messages raises: the outer except returns [].
ConnectFail(p) ==
  /\ cycle[p].pc = "connect"
  /\ cycle' = [cycle EXCEPT ![p] =
                 [@ EXCEPT !.pc = "returned", !.results = <<>>]]
  /\ UNCHANGED <<update, answer, mailbox, csv_input, parse_result, delivered, db, txn, cycles, reply, ret_count, noop_marks, confirm_calls>>

\* _fetch_message of message i.
Fetch(p) ==
  /\ cycle[p].pc = "fetch"
  /\ cycle' = [cycle EXCEPT ![p] =
                 IF Inbox[@.i].attachments = <<>> THEN AdvanceMsg(@)
                 ELSE [@ EXCEPT !.pc = "check", !.j = 1]]
  /\ UNCHANGED <<update, answer, mailbox, csv_input, parse_result, delivered, db, txn, cycles, reply, ret_count, noop_marks, confirm_calls>>

\* _fetch_message raises or returns None: the message is left out.
FetchFail(p) ==
  /\ cycle[p].pc = "fetch"
  /\ cycle' = [cycle EXCEPT ![p] =
                 AdvanceMsg(@)]
  /\ UNCHANGED <<update, answer, mailbox, csv_input, parse_result, delivered, db, txn, cycles, reply, ret_count, noop_marks, confirm_calls>>

\* The hash, is_processed and _process_csv for attachment j of message i,
\* the two files of the registry being written.
Check(p) ==
  /\ cycle[p].pc = "check"
  /\ LET c == cycle[p]
         fp == Fingerprint(c.i, c.j)
     IN  cycle' = [cycle EXCEPT ![p] =
           IF is_processed(db, fp.message_id, fp.filename, fp.file_hash)
             THEN AdvanceAtt(c)
           ELSE IF process_csv(Inbox[c.i].attachments[c.j].content, TRUE) = None
             THEN AdvanceAtt(c)
           ELSE [c EXCEPT !.pc = "mark"]]
  /\ UNCHANGED <<update, answer, mailbox, csv_input, parse_result, delivered, db, txn, cycles, reply, ret_count, noop_marks, confirm_calls>>

\* Writing a file of a new registry raises in _process_csv: its except
\* returns None and the attachment is left out, unrecorded.
ProcessCsvFail(p) ==
  /\ cycle[p].pc = "check"
  /\ LET c == cycle[p]
         fp == Fingerprint(c.i, c.j)
     IN  /\ ~is_processed(db, fp.message_id, fp.filename, fp.file_hash)
         /\ process_csv(Inbox[c.i].attachments[c.j].content, TRUE) # None
         /\ process_csv(Inbox[c.i].attachments[c.j].content, FALSE) = None
         /\ cycle' = [cycle EXCEPT ![p] = AdvanceAtt(c)]
  /\ UNCHANGED <<update, answer, mailbox, csv_input, parse_result, delivered, db, txn, cycles, reply, ret_count, noop_marks, confirm_calls>>

\* is_processed raises: the except of the message loop skips the rest of the
\* message.
CheckFail(p) ==
  /\ cycle[p].pc = "check"
  /\ cycle' = [cycle EXCEPT ![p] =
                 AdvanceMsg(@)]
  /\ UNCHANGED <<update, answer, mailbox, csv_input, parse_result, delivered, db, txn, cycles, reply, ret_count, noop_marks, confirm_calls>>

\* mark_processed and results.append(result).  A write waits for the open
\* transaction of another connection.
Mark(p) ==
  /\ cycle[p].pc = "mark"
  /\ ~txn.open
  /\ LET c == cycle[p]
         fp == Fingerprint(c.i, c.j)
         result == process_csv(Inbox[c.i].attachments[c.j].content, TRUE)
     IN  /\ db' = mark_processed(db, fp.message_id, fp.filename, fp.file_hash)
         /\ cycle' = [cycle EXCEPT ![p] =
              AdvanceAtt([c EXCEPT !.results = Append(@, [fp |-> fp, data |-> result])])]
         /\ noop_marks' = IF is_processed(db, fp.message_id, fp.filename, fp.file_hash)
                             THEN noop_marks \cup {fp} ELSE noop_marks
  /\ UNCHANGED <<update, answer, mailbox, csv_input, parse_result, delivered, txn, cycles, reply, ret_count, confirm_calls>>

\* mark_processed raises: the result is dropped with the rest of the message.
MarkFail(p) ==
  /\ cycle[p].pc = "mark"
  /\ cycle' = [cycle EXCEPT ![p] =
                 AdvanceMsg(@)]
  /\ UNCHANGED <<update, answer, mailbox, csv_input, parse_result, delivered, db, txn, cycles, reply, ret_count, noop_marks, confirm_calls>>

\* The fingerprints of a result list.
ResultFps(results) == {results[x].fp : x \in DOMAIN results}

\* mail.logout, update_stats and return results.
Finish(p) ==
  /\ cycle[p].pc = "finish"
  /\ ~txn.open
  /\ db' = update_stats(db, cycle[p].n, Len(cycle[p].results))
  /\ cycle' = [cycle EXCEPT ![p] =
                 [@ EXCEPT !.pc = "returned"]]
  /\ ret_count' = [fp \in AllFingerprints |->
                     IF fp \in ResultFps(cycle[p].results)
                       THEN ret_count[fp] + 1 ELSE ret_count[fp]]
  /\ UNCHANGED <<update, answer, mailbox, csv_input, parse_result, delivered, txn, cycles, reply, noop_marks, confirm_calls>>

\* mail.logout or update_stats raises: the outer except returns [].
FinishFail(p) ==
  /\ cycle[p].pc = "finish"
  /\ cycle' = [cycle EXCEPT ![p] =
                 [@ EXCEPT !.pc = "returned", !.results = <<>>]]
  /\ UNCHANGED <<update, answer, mailbox, csv_input, parse_result, delivered, db, txn, cycles, reply, ret_count, noop_marks, confirm_calls>>

(***************************************************************************)
(* Scheduler._run_check and _send_report                                   *)
(***************************************************************************)
\* The next admin of the loop over admin_ids, or the end of _run_check.
NextAdmin(c) ==
  IF c.a < Len(ADMIN_IDS)
    THEN [c EXCEPT !.pc = "report", !.a = @ + 1, !.r = 1, !.k = 0, !.registry_id = 0]
    ELSE Idle(c)

\* The next result for the same admin, or the next admin.
NextResult(c) ==
  IF c.r < Len(c.results)
    THEN [c EXCEPT !.pc = "report", !.r = @ + 1, !.k = 0, !.registry_id = 0]
    ELSE NextAdmin(c)

\* The setting, or the default of the environment when it has no row.
NotifyEmpty(d) ==
  IF get_setting(d, "notify_empty_registries") = "<None>" THEN "true"
  ELSE get_setting(d, "notify_empty_registries")

\* check_and_process has returned to _run_check: nothing to do for an empty
\* list, else the loop over the admins starts.
RunCheckReturn ==
  /\ cycle["sched"].pc = "returned"
  /\ cycle' = [cycle EXCEPT !["sched"] =
                 IF @.results = <<>>
                   THEN Idle(@)
                   ELSE [@ EXCEPT !.pc = "report", !.a = 1, !.r = 1]]
  /\ UNCHANGED <<update, answer, mailbox, csv_input, parse_result, delivered, db, txn, cycles, reply, ret_count, noop_marks, confirm_calls>>

\* _send_report up to the first statement of save_registry: an empty
\* registry is dropped when the notifications for empty registries are off,
\* else INSERT OR REPLACE runs and opens the transaction.
SendReportBegin ==
  /\ cycle["sched"].pc = "report"
  /\ ~txn.open
  /\ LET c == cycle["sched"]
         result == c.results[c.r].data
         working == InsertOrReplaceRegistry(db, result)
     IN  IF result.payments_count = 0 /\ NotifyEmpty(db) # "true"
           THEN /\ cycle' = [cycle EXCEPT !["sched"] = NextResult(c)]
                /\ UNCHANGED <<db, txn>>
           ELSE /\ txn' = [open |-> TRUE, db |-> working]
                /\ db' = AfterExecute(db, working)
                /\ cycle' = [cycle EXCEPT !["sched"] =
                     [c EXCEPT !.pc = "save", !.k = 1,
                        !.registry_id =
                           (CHOOSE row \in working.registries :
                              row.date = result.date).id]]
  /\ UNCHANGED <<update, answer, mailbox, csv_input, parse_result, delivered, cycles, reply, ret_count, noop_marks, confirm_calls>>

\* One INSERT INTO payments of the loop of save_registry.
SavePayment ==
  /\ cycle["sched"].pc = "save"
  /\ LET c == cycle["sched"]
         result == c.results[c.r].data
     IN  /\ c.k <= Len(result.payments)
         /\ txn' = [txn EXCEPT !.db = InsertPayment(@, c.registry_id, result.payments[c.k])]
         /\ db' = AfterExecute(db, txn'.db)
         /\ cycle' = [cycle EXCEPT !["sched"].k = @ + 1]
  /\ UNCHANGED <<update, answer, mailbox, csv_input, parse_result, delivered, cycles, reply, ret_count, noop_marks, confirm_calls>>

\* db.commit() at the end of save_registry.
SaveCommit ==
  /\ cycle["sched"].pc = "save"
  /\ cycle["sched"].k > Len(cycle["sched"].results[cycle["sched"].r].data.payments)
  /\ db' = txn.db
  /\ txn' = NoTxn
  /\ cycle' = [cycle EXCEPT !["sched"].pc = "send"]
  /\ UNCHANGED <<update, answer, mailbox, csv_input, parse_result, delivered, cycles, reply, ret_count, noop_marks, confirm_calls>>

\* get_setting or a statement of save_registry raises: the connection is
\* closed without a commit and the except of the admin loop goes on with the
\* next admin.
SaveFail ==
  /\ cycle["sched"].pc \in {"report", "save"}
  /\ txn' = NoTxn
  /\ cycle' = [cycle EXCEPT !["sched"] =
                 NextAdmin(@)]
  /\ UNCHANGED <<update, answer, mailbox, csv_input, parse_result, delivered, db, cycles, reply, ret_count, noop_marks, confirm_calls>>

\* bot.send_message of the report.
SendMessage ==
  /\ cycle["sched"].pc = "send"
  /\ cycle' = [cycle EXCEPT !["sched"] = NextResult(@)]
  /\ UNCHANGED <<update, answer, mailbox, csv_input, parse_result, delivered, db, txn, cycles, reply, ret_count, noop_marks, confirm_calls>>

\* bot.send_message raises: the rest of the results is not sent to this admin.
SendMessageFail ==
  /\ cycle["sched"].pc = "send"
  /\ cycle' = [cycle EXCEPT !["sched"] =
                 NextAdmin(@)]
  /\ UNCHANGED <<update, answer, mailbox, csv_input, parse_result, delivered, db, txn, cycles, reply, ret_count, noop_marks, confirm_calls>>

(***************************************************************************)
(* handlers: callback_check_mail and send_tax_report                       *)
(***************************************************************************)
\* check_and_process has returned to callback_check_mail.
CheckMailReturn ==
  /\ cycle["manual"].pc = "returned"
  /\ IF cycle["manual"].results = <<>>
       THEN /\ reply' = "No new registries"
            /\ cycle' = [cycle EXCEPT !["manual"] = Idle(@)]
       ELSE /\ reply' = reply
            /\ cycle' = [cycle EXCEPT !["manual"] = [@ EXCEPT !.pc = "send_tax", !.r = 1]]
  /\ UNCHANGED <<update, answer, mailbox, csv_input, parse_result, delivered, db, txn, cycles, ret_count, noop_marks, confirm_calls>>

\* send_tax_report for result r: the report is answered, but for an empty
\* registry with the notifications off.  Nothing is saved.
SendTaxReport ==
  /\ cycle["manual"].pc = "send_tax"
  /\ LET c == cycle["manual"]
         result == c.results[c.r].data
     IN  /\ reply' = IF result.payments_count = 0 /\ NotifyEmpty(db) # "true"
                       THEN reply ELSE "Report"
         /\ cycle' = [cycle EXCEPT !["manual"] =
                        IF c.r < Len(c.results) THEN [c EXCEPT !.r = @ + 1] ELSE Idle(c)]
  /\ UNCHANGED <<update, answer, mailbox, csv_input, parse_result, delivered, db, txn, cycles, ret_count, noop_marks, confirm_calls>>

\* send_tax_report raises: callback_check_mail answers with the error.
SendTaxReportFail ==
  /\ cycle["manual"].pc = "send_tax"
  /\ reply' = "Error checking mail"
  /\ cycle' = [cycle EXCEPT !["manual"] = Idle(@)]
  /\ UNCHANGED <<update, answer, mailbox, csv_input, parse_result, delivered, db, txn, cycles, ret_count, noop_marks, confirm_calls>>

(***************************************************************************)
(* The other handlers of an admin, and the mail server.                    *)
(***************************************************************************)
\* callback_toggle_notify.
ToggleNotify ==
  /\ ~txn.open
  /\ db' = set_setting(db, "notify_empty_registries",
                       IF NotifyEmpty(db) = "true" THEN "false" ELSE "true")
  /\ reply' = "Settings"
  /\ UNCHANGED <<update, answer, mailbox, csv_input, parse_result, delivered, txn, cycle, cycles, ret_count, noop_marks, confirm_calls>>

\* callback_confirm_registry for the date of a stored registry or of a report.
ConfirmRegistry(date) ==
  /\ db' = confirm_registry(db, date).db
  /\ reply' = IF confirm_registry(db, date).raised # "" 
                THEN confirm_registry(db, date).raised ELSE "Confirmed"
  /\ confirm_calls' = confirm_calls \cup {date}
  /\ UNCHANGED <<update, answer, mailbox, csv_input, parse_result, delivered, txn, cycle, cycles, ret_count, noop_marks>>

\* callback_pending.
ShowPending ==
  /\ reply' = IF get_pending_registries(db) = Raised("AttributeError")
                THEN "AttributeError" ELSE "Pending"
  /\ UNCHANGED <<update, answer, mailbox, csv_input, parse_result, delivered, db, txn, cycle, cycles, ret_count, noop_marks, confirm_calls>>

\* The rows of the history view.
HistoryLimit == 15

\* callback_history.
ShowHistory ==
  /\ reply' = LET history == get_history(db, HistoryLimit)
              IN  IF history = <<>> THEN "History empty"
                  ELSE IF \E x \in DOMAIN history : RowStatus(history[x]) = "KeyError"
                    THEN "KeyError"
                  ELSE "History"
  /\ UNCHANGED <<update, answer, mailbox, csv_input, parse_result, delivered, db, txn, cycle, cycles, ret_count, noop_marks, confirm_calls>>

\* A message arrives in the mailbox.
Deliver ==
  /\ delivered < Len(Inbox)
  /\ delivered' = delivered + 1
  /\ UNCHANGED <<update, answer, mailbox, csv_input, parse_result, db, txn, cycle, cycles, reply, ret_count, noop_marks, confirm_calls>>

(***************************************************************************)
(* The specification: the scheduler's cycle and a manual check may         *)
(* overlap, every await being a point where the other runs, and the mail   *)
(* server, the store and Telegram may raise.  The setting is left at its   *)
(* default here; SpecOk and SpecSeq have the operator toggle it.           *)
(***************************************************************************)
Init ==
  /\ mailbox = "daily"
  /\ csv_input = NoInput
  /\ parse_result = NotParsed
  /\ answer = NoAnswer
  /\ update = NoUpdate
  /\ delivered = 0
  /\ db = EmptyDb
  /\ txn = NoTxn
  /\ cycle = [p \in Callers |-> IdleCycle]
  /\ cycles = 0
  /\ reply = ""
  /\ ret_count = [fp \in AllFingerprints |-> 0]
  /\ noop_marks = {}
  /\ confirm_calls = {}

\* The steps of check_and_process in which nothing raises.
CycleStep(p) ==
  \/ Connect(p)
  \/ Fetch(p)
  \/ Check(p)
  \/ Mark(p)
  \/ Finish(p)

\* The steps in which the mail server or the store raises.
CycleFailure(p) ==
  \/ ConnectFail(p)
  \/ FetchFail(p)
  \/ CheckFail(p)
  \/ ProcessCsvFail(p)
  \/ MarkFail(p)
  \/ FinishFail(p)

\* The steps of the two callers in which nothing raises.
CallerStep ==
  \/ RunCheckReturn
  \/ SendReportBegin
  \/ SavePayment
  \/ SaveCommit
  \/ SendMessage
  \/ CheckMailReturn
  \/ SendTaxReport

\* The steps in which the store or Telegram raises.
CallerFailure ==
  \/ SaveFail
  \/ SendMessageFail
  \/ SendTaxReportFail

ViewStep ==
  \/ \E n \in DOMAIN DateOrder : ConfirmRegistry(DateOrder[n])
  \/ ShowPending
  \/ ShowHistory

Next ==
  \/ \E p \in Callers : StartCycle(p)
  \/ \E p \in Callers : CycleStep(p)
  \/ \E p \in Callers : CycleFailure(p)
  \/ CallerStep
  \/ CallerFailure
  \/ Deliver

Spec == Init /\ [][Next]_vars

(***************************************************************************)
(* The same callers when neither the mail server, the store nor Telegram   *)
(* ever raises.                                                            *)
(***************************************************************************)
NextOk ==
  \/ \E p \in Callers : StartCycle(p)
  \/ \E p \in Callers : CycleStep(p)
  \/ CallerStep
  \/ ToggleNotify
  \/ Deliver

SpecOk == Init /\ [][NextOk]_vars

(***************************************************************************)
(* The same callers, nothing raising, over a mailbox in which one file     *)
(* comes three times: in a first message, again under the same name in a   *)
(* second message, and under another name in that second message.          *)
(***************************************************************************)
InitResend ==
  /\ mailbox = "resend"
  /\ csv_input = NoInput
  /\ parse_result = NotParsed
  /\ answer = NoAnswer
  /\ update = NoUpdate
  /\ delivered = 0
  /\ db = EmptyDb
  /\ txn = NoTxn
  /\ cycle = [p \in Callers |-> IdleCycle]
  /\ cycles = 0
  /\ reply = ""
  /\ ret_count = [fp \in AllFingerprints |-> 0]
  /\ noop_marks = {}
  /\ confirm_calls = {}

SpecResend == InitResend /\ [][NextOk]_vars

(***************************************************************************)
(* The callers, with failures, over a mailbox with a registry, a file that *)
(* does not decode as utf-8 and a text that is no registry.                *)
(***************************************************************************)
InitUnreadable ==
  /\ mailbox = "unreadable"
  /\ csv_input = NoInput
  /\ parse_result = NotParsed
  /\ answer = NoAnswer
  /\ update = NoUpdate
  /\ delivered = 0
  /\ db = EmptyDb
  /\ txn = NoTxn
  /\ cycle = [p \in Callers |-> IdleCycle]
  /\ cycles = 0
  /\ reply = ""
  /\ ret_count = [fp \in AllFingerprints |-> 0]
  /\ noop_marks = {}
  /\ confirm_calls = {}

SpecUnreadable == InitUnreadable /\ [][Next]_vars

(***************************************************************************)
(* The same callers when no cycle starts while another is in flight.       *)
(***************************************************************************)
StartCycleAlone(p) ==
  /\ \A q \in Callers : ~InFlight(q)
  /\ StartCycle(p)

NextSeq ==
  \/ \E p \in Callers : StartCycleAlone(p)
  \/ \E p \in Callers : CycleStep(p)
  \/ \E p \in Callers : CycleFailure(p)
  \/ CallerStep
  \/ CallerFailure
  \/ ToggleNotify
  \/ Deliver

SpecSeq == Init /\ [][NextSeq]_vars

(***************************************************************************)
(* Non-overlapping cycles with the views of the operator.                  *)
(***************************************************************************)
NextViews ==
  \/ \E p \in Callers : StartCycleAlone(p)
  \/ \E p \in Callers : CycleStep(p)
  \/ \E p \in Callers : CycleFailure(p)
  \/ CallerStep
  \/ CallerFailure
  \/ ViewStep
  \/ Deliver

SpecViews == Init /\ [][NextViews]_vars

(***************************************************************************)
(* The parser alone: parse_yookassa_csv applied to one text.  A text is    *)
(* built from the lines before the header, the header row and the rows     *)
(* after it, each chosen among the kinds below.                            *)
(***************************************************************************)
\* The rows after the header a text has at most.
MaxRows == 3

\* The lines before the header row.
PreKinds ==
  {"meta_date", "date", "meta", "meta_meta", "late_date", "label_only", "none",
   "fifth_date", "two_dates", "label_then_date", "date_time"}

PreLines(pre) ==
  CASE pre = "meta_date" -> <<MetaLine, DateLine("2026-01-15")>>
    [] pre = "date" -> <<DateLine("2026-01-15")>>
    [] pre = "meta" -> <<MetaLine>>
    [] pre = "meta_meta" -> <<MetaLine, MetaLine>>
    [] pre = "late_date" ->
         <<MetaLine, MetaLine, MetaLine, MetaLine, MetaLine, DateLine("2026-01-15")>>
    [] pre = "label_only" -> << <<DateLabel, " ", "2026-01-15">> >>
    [] pre = "none" -> <<>>
    [] pre = "fifth_date" ->
         <<MetaLine, MetaLine, MetaLine, MetaLine, DateLine("2026-01-15")>>
    [] pre = "two_dates" -> <<DateLine("2026-01-15"), DateLine("2026-01-16")>>
    [] pre = "label_then_date" ->
         << <<DateLabel, " ", "2026-01-15">>, DateLine("2026-01-16") >>
    [] pre = "date_time" ->
         <<MetaLine, <<DateLabel, ":", " ", "2026-01-15", " ", "10", ":", "00", " ">> >>

\* The header row, or none.
HeaderKinds == {"full", "absent"}

HeaderLines(header) == IF header = "full" THEN <<HeaderLine>> ELSE <<>>

\* The rows after the header: two payments, a row with a malformed amount,
\* one with a malformed commission, one with an empty identifier, one whose
\* identifier is a space, one with fewer cells than the header, and the two
\* summary rows.
RowKinds ==
  {"p1", "p2", "bad_amount", "bad_commission", "no_id", "space_id", "short",
   "sum", "count"}

RowLine(kind) ==
  CASE kind = "p1" -> DataRow("p1", <<"100,00">>, <<"0">>)
    [] kind = "p2" -> DataRow("p2", <<"1", " ", "234,56">>, <<"100,00">>)
    [] kind = "bad_amount" -> DataRow("p3", <<"abc">>, <<"0">>)
    [] kind = "bad_commission" -> DataRow("p4", <<"100,00">>, <<"abc">>)
    [] kind = "no_id" -> <<";", "100,00", ";", "0", ";", "vpn">>
    [] kind = "space_id" -> <<" ", ";", "100,00", ";", "0", ";", "vpn">>
    [] kind = "short" -> <<"p5", ";", "100,00">>
    [] kind = "sum" -> SumLine
    [] kind = "count" -> CountLine

\* The texts handed to the parser.
CsvInputs ==
  [pre : PreKinds, header : HeaderKinds,
   rows : UNION {[1..n -> RowKinds] : n \in 0..MaxRows}]

\* The lines of a text.
CsvText(input) ==
  PreLines(input.pre) \o HeaderLines(input.header)
    \o [k \in 1..Len(input.rows) |-> RowLine(input.rows[k])]

\* result = parse_yookassa_csv(text)
Parse ==
  /\ csv_input \in CsvInputs
  /\ parse_result = NotParsed
  /\ parse_result' = parse_yookassa_csv(CsvText(csv_input))
  /\ UNCHANGED <<update, answer, delivered, db, txn, cycle, cycles, reply, ret_count, noop_marks,
                 confirm_calls, mailbox, csv_input>>

InitParser ==
  /\ mailbox = "daily"
  /\ csv_input \in CsvInputs
  /\ parse_result = NotParsed
  /\ answer = NoAnswer
  /\ update = NoUpdate
  /\ delivered = 0
  /\ db = EmptyDb
  /\ txn = NoTxn
  /\ cycle = [p \in Callers |-> IdleCycle]
  /\ cycles = 0
  /\ reply = ""
  /\ ret_count = [fp \in AllFingerprints |-> 0]
  /\ noop_marks = {}
  /\ confirm_calls = {}

NextParser == Parse

SpecParser == InitParser /\ [][NextParser]_vars

(***************************************************************************)
(* The store alone: registries of several months and years are saved, each *)
(* save_registry whole, and the queries of the statistics and history      *)
(* views are run on what is stored.                                        *)
(***************************************************************************)
\* The registries one run saves.
MaxSaves == 3

\* A registry text of a date, or with no date line for "unknown".
StoreText(date, rows) ==
  (IF date = "unknown" THEN <<MetaLine, MetaLine>> ELSE <<MetaLine, DateLine(date)>>)
  \o <<HeaderLine>> \o rows \o <<SumLine, CountLine>>

\* The rows of the registries saved: two payments, or none.
StoreRows ==
  <<DataRow("p1", <<"100,00">>, <<"0">>),
    DataRow("p2", <<"1", " ", "234,56">>, <<"100,00">>)>>

\* What _process_csv hands on for these texts: a registry with payments for
\* each date, and an empty one for a date that also has one with payments.
StoreRegistries ==
  {WithFiles(parse_yookassa_csv(StoreText(date, StoreRows)), TRUE) :
     date \in DOMAIN Chars}
  \cup {WithFiles(parse_yookassa_csv(StoreText("2026-01-16", <<>>)), TRUE)}

\* The loop over data["payments"] of save_registry, from payment k on.
RECURSIVE InsertPayments(_, _, _, _)
InsertPayments(d, registry_id, payments, k) ==
  IF k > Len(payments) THEN d
  ELSE InsertPayments(InsertPayment(d, registry_id, payments[k]),
                      registry_id, payments, k + 1)

\* save_registry from its first statement to its commit.
save_registry(d, data) ==
  InsertPayments(InsertOrReplaceRegistry(d, data), NextRegistryId(d), data.payments, 1)

SaveRegistry(data) ==
  /\ db.seq_registries < MaxSaves
  /\ db' = save_registry(db, data)
  /\ UNCHANGED <<update, answer, mailbox, csv_input, parse_result, delivered, txn, cycle, cycles, reply, ret_count, noop_marks, confirm_calls>>

\* datetime.now() in callback_stats: the year and the month asked for.
QueryYears == {2025, 2026}
QueryMonths == {1, 2, 12}

\* The limits get_history is called with.
HistoryLimits == {0, 1, 2, HistoryLimit}

GetMonthlyStats(year, month) ==
  /\ answer' = [call |-> "get_monthly_stats", year |-> year, month |-> month,
                result |-> get_monthly_stats(db, year, month)]
  /\ UNCHANGED <<update, mailbox, csv_input, parse_result, delivered, db, txn, cycle, cycles, reply, ret_count, noop_marks, confirm_calls>>

GetYearlyStats(year) ==
  /\ answer' = [call |-> "get_yearly_stats", year |-> year,
                result |-> get_yearly_stats(db, year)]
  /\ UNCHANGED <<update, mailbox, csv_input, parse_result, delivered, db, txn, cycle, cycles, reply, ret_count, noop_marks, confirm_calls>>

GetAllTimeStats ==
  /\ answer' = [call |-> "get_all_time_stats", result |-> get_all_time_stats(db)]
  /\ UNCHANGED <<update, mailbox, csv_input, parse_result, delivered, db, txn, cycle, cycles, reply, ret_count, noop_marks, confirm_calls>>

GetHistory(limit) ==
  /\ answer' = [call |-> "get_history", limit |-> limit,
                result |-> get_history(db, limit)]
  /\ UNCHANGED <<update, mailbox, csv_input, parse_result, delivered, db, txn, cycle, cycles, reply, ret_count, noop_marks, confirm_calls>>

NextStore ==
  \/ \E data \in StoreRegistries : SaveRegistry(data)
  \/ \E year \in QueryYears, month \in QueryMonths : GetMonthlyStats(year, month)
  \/ \E year \in QueryYears : GetYearlyStats(year)
  \/ GetAllTimeStats
  \/ \E limit \in HistoryLimits : GetHistory(limit)

SpecStore == Init /\ [][NextStore]_vars

(***************************************************************************)
(* register_handlers: the updates of Telegram users, admins and others.    *)
(* Each handler tests is_admin first; what follows its first await is a    *)
(* step of its own.  The store is fresh, or as a cycle of the scheduler    *)
(* over the first message left it.                                         *)
(***************************************************************************)
\* The manual checks the admins start in one run.
MaxChecks == 1

\* A test that lets every user through.
is_admin_anyone(user_id) == TRUE

\* user_id in ADMIN_IDS
is_admin(user_id) == \E n \in DOMAIN ADMIN_IDS : ADMIN_IDS[n] = user_id

\* from_user.id of the updates: the admins and one other user.
Users == {101, 102, 999}

\* The handlers, by the command or callback data each is registered for.
Handlers ==
  {"start", "text", "main_menu", "check_mail", "show_status", "show_stats",
   "show_history", "show_pending", "show_settings", "settings_toggle_notify",
   "registry_details", "registry_csv", "confirm_registry", "delete_message"}

\* A handler is entered: `if not is_admin(...)` answers "Access denied" and
\* returns (handle_text returns without an answer).
Dispatch(user, data) ==
  /\ update' = [data |-> data, user |-> user, admitted |-> is_admin(user)]
  /\ reply' = IF is_admin(user) THEN ""
              ELSE IF data = "text" THEN reply
              ELSE "Access denied"
  /\ UNCHANGED <<answer, mailbox, csv_input, parse_result, delivered, db, txn, cycle, cycles, ret_count, noop_marks, confirm_calls>>

\* The handler for data has passed its test of is_admin.
Admitted(data) == update.admitted /\ update.data = data

\* show_main_menu, from cmd_start and callback_main_menu.
ShowMainMenu ==
  /\ reply' = IF get_pending_registries(db) = Raised("AttributeError")
                THEN "AttributeError" ELSE "Menu"
  /\ UNCHANGED <<update, answer, mailbox, csv_input, parse_result, delivered, db, txn, cycle, cycles, ret_count, noop_marks, confirm_calls>>

\* callback_status: db.get_stats().
ShowStatus ==
  /\ reply' = IF db.stats.last_check THEN "Status" ELSE "Status: never checked"
  /\ UNCHANGED <<update, answer, mailbox, csv_input, parse_result, delivered, db, txn, cycle, cycles, ret_count, noop_marks, confirm_calls>>

\* callback_stats: the three queries, then the text built from their fields.
ShowStats(year, month) ==
  /\ reply' = IF /\ {"total_income", "confirmed_income", "pending_income",
                      "total_commission", "total_payments", "days_with_income"}
                       \subseteq DOMAIN get_monthly_stats(db, year, month)
                  /\ {"total_income", "total_commission", "total_payments"}
                       \subseteq DOMAIN get_yearly_stats(db, year)
                  /\ {"total_income", "total_payments", "registries_count"}
                       \subseteq DOMAIN get_all_time_stats(db)
                THEN "Stats" ELSE "KeyError"
  /\ UNCHANGED <<update, answer, mailbox, csv_input, parse_result, delivered, db, txn, cycle, cycles, ret_count, noop_marks, confirm_calls>>

\* callback_settings.
ShowSettings ==
  /\ reply' = "Settings"
  /\ UNCHANGED <<update, answer, mailbox, csv_input, parse_result, delivered, db, txn, cycle, cycles, ret_count, noop_marks, confirm_calls>>

\* callback_registry_details and callback_registry_csv for a date.
RegistryDetails(date) ==
  /\ reply' = IF get_registry(db, date) = None THEN "Registry not found"
              ELSE "Details"
  /\ UNCHANGED <<update, answer, mailbox, csv_input, parse_result, delivered, db, txn, cycle, cycles, ret_count, noop_marks, confirm_calls>>

RegistryCsv(date) ==
  /\ reply' = IF get_registry(db, date) = None THEN "Registry not found"
              ELSE "Files"
  /\ UNCHANGED <<update, answer, mailbox, csv_input, parse_result, delivered, db, txn, cycle, cycles, ret_count, noop_marks, confirm_calls>>

\* What follows the test of is_admin in each handler, and the steps of the
\* manual check an admin has started.
HandlerStep ==
  \/ Admitted("start") /\ ShowMainMenu
  \/ Admitted("main_menu") /\ ShowMainMenu
  \/ Admitted("check_mail") /\ cycles < MaxChecks /\ StartCycle("manual")
  \/ Admitted("show_status") /\ ShowStatus
  \/ Admitted("show_stats")
       /\ \E year \in QueryYears, month \in QueryMonths : ShowStats(year, month)
  \/ Admitted("show_history") /\ ShowHistory
  \/ Admitted("show_pending") /\ ShowPending
  \/ Admitted("show_settings") /\ ShowSettings
  \/ Admitted("settings_toggle_notify") /\ ToggleNotify
  \/ Admitted("registry_details")
       /\ \E n \in DOMAIN DateOrder : RegistryDetails(DateOrder[n])
  \/ Admitted("registry_csv")
       /\ \E n \in DOMAIN DateOrder : RegistryCsv(DateOrder[n])
  \/ Admitted("confirm_registry")
       /\ \E n \in DOMAIN DateOrder : ConfirmRegistry(DateOrder[n])

\* The store after the scheduler's cycle over the first message: the
\* registry recorded and counted, then saved once for each admin.
SchedulerStore ==
  LET fp == Fingerprint(1, 1)
      data == process_csv(Inbox[1].attachments[1].content, TRUE)
      marked == mark_processed(EmptyDb, fp.message_id, fp.filename, fp.file_hash)
  IN  save_registry(save_registry(update_stats(marked, 1, 1), data), data)

InitUsers ==
  /\ mailbox = "daily"
  /\ csv_input = NoInput
  /\ parse_result = NotParsed
  /\ answer = NoAnswer
  /\ update = NoUpdate
  /\ \/ delivered = 0 /\ db = EmptyDb
     \/ delivered = 1 /\ db = SchedulerStore
  /\ txn = NoTxn
  /\ cycle = [p \in Callers |-> IdleCycle]
  /\ cycles = 0
  /\ reply = ""
  /\ ret_count = [fp \in AllFingerprints |-> 0]
  /\ noop_marks = {}
  /\ confirm_calls = {}

NextUsers ==
  \/ \E user \in Users, data \in Handlers : Dispatch(user, data)
  \/ HandlerStep
  \/ CycleStep("manual")
  \/ CheckMailReturn
  \/ SendTaxReport
  \/ Deliver

SpecUsers == InitUsers /\ [][NextUsers]_vars

(***************************************************************************)
(* Properties.                                                             *)
(***************************************************************************)
\* The rows of the ledger.
Ledger == {db.processed_files[n] : n \in DOMAIN db.processed_files}

\* The content a fingerprint was computed from.
ContentOf(fp) == fp.file_hash[2]

\* The date of the registry a fingerprint's content parses to.
DateOfFp(fp) == process_csv(ContentOf(fp), TRUE).date

\* No caller runs a cycle.
Quiescent == \A p \in Callers : ~InFlight(p)

\* check_and_process has returned to the caller, which still holds the list.
Returned(p) == cycle[p].pc \in {"returned", "report", "save", "send", "send_tax"}

RECURSIVE SumAmounts(_)
SumAmounts(rows) ==
  IF rows = {} THEN 0
  ELSE LET q == CHOOSE q \in rows : TRUE
       IN  q.amount + SumAmounts(rows \ {q})

\* Every attachment of the messages the cycle of p searched is one the ledger
\* holds or one that parses to nothing.
AllSeenRecorded(p) ==
  \A i \in 1..cycle[p].n : \A j \in DOMAIN Inbox[i].attachments :
    \/ Fingerprint(i, j) \in Ledger
    \/ process_csv(Inbox[i].attachments[j].content, TRUE) = None

\* C1: a cycle that runs alone over a mailbox whose parseable attachments are
\* all in the ledger already adds no fingerprint, returns no result and
\* leaves the registry and payment rows as they were: none of its steps
\* changes the ledger, the registries or the payments.
C1_ReingestAddsNothing ==
  [][\A p \in Callers :
       (/\ cycle[p].pc \in {"fetch", "check", "mark", "finish", "returned"}
        /\ cycle[p].results = <<>>
        /\ AllSeenRecorded(p))
       => /\ db'.processed_files = db.processed_files
          /\ db'.registries = db.registries
          /\ db'.payments = db.payments
          /\ cycle'[p].results = <<>>
          /\ cycle'[p].pc # "mark"]_vars

\* A second cycle has gone through a mailbox whose registries the ledger
\* holds.
C1_Witness ==
  \E p \in Callers :
    /\ cycles = 2
    /\ cycle[p].pc = "finish"
    /\ cycle[p].n = 2
    /\ cycle[p].results = <<>>
    /\ Cardinality(Ledger) = 3
    /\ db.registries # {}

\* C2: when the cycles do not overlap, every attachment that was ingested
\* (its parse succeeded and its fingerprint is in the ledger) is in the
\* returned result of exactly one cycle.
C2_ProcessedExactlyOnce ==
  /\ \A fp \in AllFingerprints : ret_count[fp] <= 1
  /\ Quiescent => \A fp \in Ledger : ret_count[fp] = 1

\* C3: once the callers are done, the registry of every fingerprint of the
\* ledger is stored under its date.
C3_FingerprintImpliesRegistry ==
  Quiescent =>
    \A fp \in Ledger : \E row \in db.registries : row.date = DateOfFp(fp)

\* C4: the commit of save_registry for a date leaves exactly one row for the
\* date, with the totals of the saved registry, and no payment of a row the
\* date had before.
C4_ReplaceDropsOldPayments ==
  [][(cycle["sched"].pc = "save" /\ cycle'["sched"].pc = "send")
       => LET result == cycle["sched"].results[cycle["sched"].r].data
              rows == {row \in db'.registries : row.date = result.date}
          IN  /\ Cardinality(rows) = 1
              /\ \A row \in rows :
                   /\ row.total_amount = result.total_amount
                   /\ row.commission = result.commission
                   /\ row.payments_count = result.payments_count
              /\ \A old \in db.registries :
                   old.date = result.date
                     => ~\E q \in db'.payments : q.registry_id = old.id]_vars

\* Every registry a reader finds has all the payments it counts.
VisibleComplete(d) ==
  \A row \in d.registries :
    Cardinality({q \in d.payments : q.registry_id = row.id}) = row.payments_count

\* C5: while save_registry runs, no step but its commit changes the registry
\* and payment rows the other connections read, a failure included; and at
\* every step every registry they read has all its payments.
C5_AtomicSave ==
  [][/\ (cycle["sched"].pc \in {"report", "save"} /\ cycle'["sched"].pc # "send")
          => (db'.registries = db.registries /\ db'.payments = db.payments)
     /\ VisibleComplete(db')]_vars

\* save_registry has written the row and one of two payments, none of them
\* visible yet.
C5_Witness ==
  /\ txn.open
  /\ cycle["sched"].pc = "save"
  /\ cycle["sched"].k = 2
  /\ Cardinality(txn.db.payments) = Cardinality(db.payments) + 1
  /\ txn.db.registries # db.registries

\* C6: for every stored registry, as get_registry returns it, payments_count
\* is the number of its payment rows and total_amount the sum of their
\* amounts.
C6_TotalsMatchPayments ==
  \A row \in db.registries :
    LET got == get_registry(db, row.date)
    IN  /\ got.registry = row
        /\ row.payments_count = Cardinality(got.payments)
        /\ row.total_amount = SumAmounts(got.payments)

\* A date was saved, then saved again with another content.
C6_Witness ==
  /\ db.seq_registries >= 3
  /\ \E row \in db.registries : row.payments_count = 1 /\ row.total_amount = 30000
  /\ \E q \in db.payments : q.amount = 25050

\* C7: once two overlapping cycles that both recorded the fingerprint of an
\* attachment are done, the ledger holds the fingerprint once and one
\* registry row is stored for the date of the attachment.
C7_OverlapOneRow ==
  Quiescent =>
    \A fp \in noop_marks :
      /\ Cardinality({n \in DOMAIN db.processed_files : db.processed_files[n] = fp}) = 1
      /\ Cardinality({row \in db.registries : row.date = DateOfFp(fp)}) = 1

\* C8: no attachment is in the lists two overlapping cycles returned.
C8_NoDoubleIngest ==
  \A p, q \in Callers :
    (p # q /\ Returned(p) /\ Returned(q))
      => ResultFps(cycle[p].results) \cap ResultFps(cycle[q].results) = {}

\* The status of the registry of a date: "absent" when none is stored.
StatusOfDate(d, date) ==
  IF \E row \in d.registries : row.date = date
    THEN RowStatus(CHOOSE row \in d.registries : row.date = date)
    ELSE "absent"

\* C9: a registry is pending when it is first stored, becomes confirmed only
\* in a step that confirms its date, and once confirmed stays confirmed.
C9_StatusLifecycle ==
  [][\A n \in DOMAIN DateOrder :
       LET date == DateOrder[n]
       IN  /\ (StatusOfDate(db, date) = "absent" /\ StatusOfDate(db', date) # "absent")
                => StatusOfDate(db', date) = "pending"
           /\ (StatusOfDate(db, date) # "confirmed" /\ StatusOfDate(db', date) = "confirmed")
                => (date \in confirm_calls' /\ reply' = "Confirmed")
           /\ StatusOfDate(db, date) = "confirmed"
                => StatusOfDate(db', date) = "confirmed"]_vars

\* C10: with registries stored, get_pending returns the registries whose date
\* was never confirmed, and every confirmed date is in the history with
\* status confirmed.
C10_PendingView ==
  db.registries # {} =>
    /\ get_pending_registries(db)
         = [rows |-> {row \in db.registries : row.date \notin confirm_calls}]
    /\ \A date \in confirm_calls :
         (\E row \in db.registries : row.date = date)
           => \E x \in DOMAIN get_history(db, HistoryLimit) :
                /\ get_history(db, HistoryLimit)[x].date = date
                /\ RowStatus(get_history(db, HistoryLimit)[x]) = "confirmed"

\* C11: a confirm of a date that has no registry, or whose registry is
\* confirmed already, leaves the store as it is and answers without an error.
C11_ConfirmNoOp ==
  [][\A n \in DOMAIN DateOrder :
       (/\ DateOrder[n] \in confirm_calls' \ confirm_calls
        /\ StatusOfDate(db, DateOrder[n]) \in {"absent", "confirmed"})
         => (db' = db /\ reply' = "Confirmed")]_vars

\* C12: a cycle that failed to run (the connection to the mail server raised)
\* does not hand its caller the empty list a cycle without new registries
\* returns.
C12_FailureDistinct ==
  [][\A p \in Callers :
       (cycle[p].pc = "connect" /\ cycle'[p].pc = "returned")
         => cycle'[p].results # <<>>]_vars

\* C13: whatever happens to attachment j of a message (skipped, parsed to
\* nothing, recorded, a failure of the store), the cycle goes on with the
\* attachment itself or with its next sibling: no sibling is left out.
C13_SiblingsProcessed ==
  [][\A p \in Callers :
       (/\ cycle[p].pc \in {"check", "mark"}
        /\ cycle[p].j < Len(Inbox[cycle[p].i].attachments)
        /\ cycle'[p] # cycle[p])
         => /\ cycle'[p].i = cycle[p].i
            /\ cycle'[p].j \in {cycle[p].j, cycle[p].j + 1}
            /\ cycle'[p].pc \in {"check", "mark"}]_vars

(***************************************************************************)
(* What a text holds, read off the kinds it was built from.                *)
(***************************************************************************)
\* A row whose first cell is a summary marker.
IsSummary(kind) == kind \in {"sum", "count"}

\* A row with an identifier and two well-formed amounts.
WellFormed == {"p1", "p2"}

\* A row with an identifier and a malformed amount or commission.
Malformed == {"bad_amount", "bad_commission"}

\* The rows before the first summary row.
DataPrefix(rows) ==
  IF \E k \in DOMAIN rows : IsSummary(rows[k])
    THEN SubSeq(rows, 1,
           (CHOOSE k \in DOMAIN rows :
              IsSummary(rows[k]) /\ \A j \in 1..(k - 1) : ~IsSummary(rows[j])) - 1)
    ELSE rows

\* The well-formed rows before the first summary row.
Accepted(rows) == SelectSeq(DataPrefix(rows), LAMBDA kind : kind \in WellFormed)

\* The amount and the commission of a well-formed row, in kopecks.
RowAmount(kind) == IF kind = "p1" THEN 10000 ELSE 123456
RowCommission(kind) == IF kind = "p1" THEN 0 ELSE 10000

RECURSIVE SumRowAmounts(_)
SumRowAmounts(kinds) ==
  IF kinds = <<>> THEN 0 ELSE RowAmount(Head(kinds)) + SumRowAmounts(Tail(kinds))

RECURSIVE SumRowCommissions(_)
SumRowCommissions(kinds) ==
  IF kinds = <<>> THEN 0
  ELSE RowCommission(Head(kinds)) + SumRowCommissions(Tail(kinds))

\* The identifiers of the payments of a registry, in their order.
PaymentIds(registry) ==
  [k \in 1..Len(registry.payments) |-> registry.payments[k].payment_id]

\* The parser has returned.
HasParsed == parse_result # NotParsed

\* The text has a header row and at least 4 lines.
Structural(input) == input.header = "full" /\ Len(CsvText(input)) >= 4

\* The registry the parser returned holds exactly the rows kinds, in their
\* order, and their sums.
HoldsRows(registry, kinds) ==
  /\ registry # None
  /\ registry.payments_count = Len(kinds)
  /\ Len(registry.payments) = Len(kinds)
  /\ PaymentIds(registry) = [k \in 1..Len(kinds) |-> <<kinds[k]>>]
  /\ registry.total_amount = SumRowAmounts(kinds)
  /\ registry.commission = SumRowCommissions(kinds)

\* C14: for a text with a header row and at least 4 lines whose rows before
\* the summary rows are N well-formed payments, the parser returns a registry
\* with payments_count = N = the length of the payment list, total_amount
\* the sum of their amounts and commission the sum of their commissions.
C14_CountAndSums ==
  (/\ HasParsed
   /\ Structural(csv_input)
   /\ \A k \in DOMAIN DataPrefix(csv_input.rows) :
        DataPrefix(csv_input.rows)[k] \in WellFormed)
    => HoldsRows(parse_result, DataPrefix(csv_input.rows))

\* Two payments, one of them written "1 234,56", then the summary row.
C14_Witness ==
  /\ csv_input = [pre |-> "meta_date", header |-> "full", rows |-> <<"p1", "p2", "sum">>]
  /\ parse_result # NotParsed
  /\ parse_result # None
  /\ parse_result.payments_count = 2
  /\ parse_result.total_amount = 133456

\* C15: when rows with a malformed amount or commission stand among
\* well-formed rows, the registry holds exactly the well-formed rows, those
\* before and those after a malformed row, and their sums.
C15_MalformedRowSkipped ==
  (/\ HasParsed
   /\ Structural(csv_input)
   /\ \A k \in DOMAIN DataPrefix(csv_input.rows) :
        DataPrefix(csv_input.rows)[k] \in WellFormed \cup Malformed
   /\ \E k \in DOMAIN DataPrefix(csv_input.rows) :
        DataPrefix(csv_input.rows)[k] \in Malformed)
    => HoldsRows(parse_result, Accepted(csv_input.rows))

\* A malformed amount between two payments.
C15_Witness ==
  /\ csv_input = [pre |-> "meta_date", header |-> "full",
                  rows |-> <<"p1", "bad_amount", "p2">>]
  /\ parse_result # NotParsed
  /\ parse_result # None
  /\ PaymentIds(parse_result) = << <<"p1">>, <<"p2">> >>

\* C16: a text with a date line, the header row and then directly a summary
\* row is returned as a registry with no payment and total 0, never as None.
C16_EmptyRegistryKept ==
  (/\ HasParsed
   /\ csv_input.pre \in {"date", "meta_date"}
   /\ csv_input.header = "full"
   /\ csv_input.rows # <<>>
   /\ IsSummary(csv_input.rows[1]))
    => /\ parse_result # None
       /\ parse_result.payments_count = 0
       /\ parse_result.total_amount = 0

\* C17: a text of fewer than 4 lines, or without a header row, is returned
\* as None.
C17_StructuralReject ==
  (HasParsed /\ (Len(CsvText(csv_input)) < 4 \/ csv_input.header = "absent"))
    => parse_result = None

\* Three lines: the date, the header row and one payment.
C17_Witness ==
  /\ csv_input = [pre |-> "date", header |-> "full", rows |-> <<"p1">>]
  /\ parse_result = None

\* C18: a text with no date label in its first 5 lines, a header row, at
\* least 4 lines and well-formed rows is returned as a registry with the
\* date "unknown" and all its rows.
C18_UnknownDate ==
  (/\ HasParsed
   /\ csv_input.pre \in {"meta", "meta_meta", "late_date", "none"}
   /\ Structural(csv_input)
   /\ \A k \in DOMAIN DataPrefix(csv_input.rows) :
        DataPrefix(csv_input.rows)[k] \in WellFormed)
    => /\ HoldsRows(parse_result, DataPrefix(csv_input.rows))
       /\ parse_result.date = <<"unknown">>

\* The date label is on the sixth line.
C18_Witness ==
  /\ csv_input = [pre |-> "late_date", header |-> "full", rows |-> <<"p1", "p2">>]
  /\ parse_result # NotParsed
  /\ parse_result # None
  /\ parse_result.date = <<"unknown">>
  /\ parse_result.payments_count = 2

\* C19: when rows follow a summary row, the registry holds the well-formed
\* rows before the first summary row and their sums, and nothing of a row at
\* or after it.
C19_SummaryStops ==
  (/\ HasParsed
   /\ Structural(csv_input)
   /\ \E k \in DOMAIN csv_input.rows :
        IsSummary(csv_input.rows[k]) /\ k < Len(csv_input.rows)
   /\ \A k \in DOMAIN DataPrefix(csv_input.rows) :
        DataPrefix(csv_input.rows)[k] \in WellFormed \cup Malformed \cup {"no_id"})
    => HoldsRows(parse_result, Accepted(csv_input.rows))

\* A payment after the summary row.
C19_Witness ==
  /\ csv_input = [pre |-> "meta_date", header |-> "full", rows |-> <<"p1", "sum", "p2">>]
  /\ parse_result # NotParsed
  /\ parse_result # None
  /\ parse_result.payments_count = 1
  /\ parse_result.total_amount = 10000

\* C20: an attachment whose (message id, file name, hash) is not in the
\* ledger is not skipped when the ledger holds the same hash under another
\* file name or another message id: the lookup lets it through to be parsed
\* and recorded as a unit of its own.
C20_TripleOnly ==
  [][\A p \in Callers :
       (/\ cycle[p].pc = "check"
        /\ cycle'[p] # cycle[p]
        /\ Fingerprint(cycle[p].i, cycle[p].j) \notin Ledger
        /\ \E e \in Ledger :
             e.file_hash = Fingerprint(cycle[p].i, cycle[p].j).file_hash)
         => /\ cycle'[p].pc = "mark"
            /\ cycle'[p].i = cycle[p].i
            /\ cycle'[p].j = cycle[p].j]_vars

\* The same content is in the ledger three times, once per message id and
\* file name, and each was returned by a cycle.
C20_Witness ==
  /\ mailbox = "resend"
  /\ Cardinality(Ledger) = 3
  /\ Cardinality({e.file_hash : e \in Ledger}) = 1
  /\ Ledger = AllFingerprints
  /\ \A fp \in AllFingerprints : ret_count[fp] >= 1

\* C21: the counters never decrease and change only in the step that ends
\* a cycle, after its last message: that step adds the number of messages
\* of the cycle to emails_processed and the number of results it returns to
\* files_processed, on top of what any overlapping cycle has added.
C21_CountersPerCycle ==
  [][/\ db'.stats.emails_processed >= db.stats.emails_processed
     /\ db'.stats.files_processed >= db.stats.files_processed
     /\ db'.stats # db.stats =>
          \E p \in Callers :
            /\ cycle[p].pc = "finish"
            /\ cycle'[p].pc = "returned"
            /\ cycle'[p].results = cycle[p].results
            /\ db'.stats.emails_processed =
                 db.stats.emails_processed + cycle[p].n
            /\ db'.stats.files_processed =
                 db.stats.files_processed + Len(cycle[p].results)
     /\ \A p \in Callers :
          (cycle[p].pc = "finish" /\ cycle'[p].pc = "returned"
           /\ cycle'[p].results # <<>>)
            => db'.stats.files_processed =
                 db.stats.files_processed + Len(cycle'[p].results)]_vars

\* Two overlapping cycles have both ended, each over two messages and with
\* results: the counters hold the sum of the two.
C21_Witness ==
  /\ \A p \in Callers : cycle[p].pc = "returned" /\ cycle[p].results # <<>>
  /\ db.stats.emails_processed = cycle["sched"].n + cycle["manual"].n
  /\ db.stats.emails_processed = 4
  /\ db.stats.files_processed =
       Len(cycle["sched"].results) + Len(cycle["manual"].results)

(***************************************************************************)
(* The calendar month of each stored date, and the registries of a month   *)
(* and of a year.                                                          *)
(***************************************************************************)
Calendar ==
  ("2025-12-31" :> [year |-> 2025, month |-> 12])
  @@ ("2026-01-15" :> [year |-> 2026, month |-> 1])
  @@ ("2026-01-16" :> [year |-> 2026, month |-> 1])
  @@ ("2026-02-01" :> [year |-> 2026, month |-> 2])
  @@ ("unknown" :> [year |-> 0, month |-> 0])

RegistriesOfMonth(d, year, month) ==
  {r \in d.registries :
     Calendar[r.date[1]].year = year /\ Calendar[r.date[1]].month = month}

RegistriesOfYear(d, year) ==
  {r \in d.registries : Calendar[r.date[1]].year = year}

\* The three sums over rows.
SumsMatch(result, rows) ==
  /\ result.total_income = SqlInt(SumCol(rows, "total_amount"))
  /\ result.total_commission = SqlInt(SumCol(rows, "commission"))
  /\ result.total_payments = SqlInt(SumCol(rows, "payments_count"))

\* Every field of a result is the integer 0.
AllZero(result) == \A f \in DOMAIN result : result[f] = SqlInt(0)

\* C22: a monthly or yearly query for a month or year of which the store
\* holds no registry, and an all-time query on a store without registries,
\* return a structure whose every field is 0, none of them NULL.
C22_ZeroValued ==
  [][answer' # answer =>
       /\ (/\ answer'.call = "get_monthly_stats"
           /\ RegistriesOfMonth(db, answer'.year, answer'.month) = {})
            => AllZero(answer'.result)
       /\ (/\ answer'.call = "get_yearly_stats"
           /\ RegistriesOfYear(db, answer'.year) = {})
            => AllZero(answer'.result)
       /\ (answer'.call = "get_all_time_stats" /\ db.registries = {})
            => AllZero(answer'.result)]_vars

\* The store holds registries, none of the month asked for: all five fields
\* of the answer are 0.
C22_Witness ==
  /\ answer.call = "get_monthly_stats"
  /\ db.registries # {}
  /\ RegistriesOfMonth(db, answer.year, answer.month) = {}
  /\ DOMAIN answer.result =
       {"registries_count", "total_income", "total_commission",
        "total_payments", "days_with_income"}
  /\ AllZero(answer.result)

\* C23: the monthly answer holds the sums of total_amount, commission and
\* payments_count over exactly the registries of that calendar month and the
\* number of those with income; the yearly answer the same sums over the
\* registries of the year; the all-time answer the sums over all registries
\* and their number.
C23_AggregatesMatch ==
  [][answer' # answer =>
       /\ answer'.call = "get_monthly_stats" =>
            /\ SumsMatch(answer'.result,
                         RegistriesOfMonth(db, answer'.year, answer'.month))
            /\ answer'.result.days_with_income =
                 SqlInt(Cardinality(
                   {r \in RegistriesOfMonth(db, answer'.year, answer'.month) :
                      r.total_amount # 0}))
       /\ answer'.call = "get_yearly_stats" =>
            SumsMatch(answer'.result, RegistriesOfYear(db, answer'.year))
       /\ answer'.call = "get_all_time_stats" =>
            /\ SumsMatch(answer'.result, db.registries)
            /\ answer'.result.registries_count =
                 SqlInt(Cardinality(db.registries))]_vars

\* January 2026 holds a registry with two payments and one with none, and
\* the store a registry of another month.
C23_Witness ==
  /\ answer.call = "get_monthly_stats"
  /\ answer.year = 2026
  /\ answer.month = 1
  /\ {r.date : r \in db.registries} =
       {<<"2026-01-15">>, <<"2026-01-16">>, <<"2025-12-31">>}
  /\ Cardinality({r \in db.registries : r.total_amount = 0}) = 1
  /\ \E r \in db.registries : r.date = <<"2025-12-31">> /\ r.total_amount # 0
  /\ answer.result.total_income = SqlInt(133456)
  /\ answer.result.total_payments = SqlInt(2)
  /\ answer.result.days_with_income = SqlInt(1)

\* The day of each stored date, as a number that grows with time.
DayNumber ==
  ("2025-12-31" :> 20251231) @@ ("2026-01-15" :> 20260115)
  @@ ("2026-01-16" :> 20260116) @@ ("2026-02-01" :> 20260201)

\* The registry has a date.
Dated(r) == r.date[1] \in DOMAIN DayNumber

\* r is of a later day than q.
LaterThan(r, q) == DayNumber[r.date[1]] > DayNumber[q.date[1]]

\* The rows of a list.
RowsOf(h) == {h[k] : k \in DOMAIN h}

C25_MarkIdempotent ==
  [][\A p \in Callers :
       (cycle[p].pc = "mark" /\ cycle'[p] # cycle[p]) =>
         /\ Len(cycle'[p].results) = Len(cycle[p].results) + 1
         /\ Fingerprint(cycle[p].i, cycle[p].j) \in Ledger => db' = db
         /\ Fingerprint(cycle[p].i, cycle[p].j) \notin Ledger =>
              /\ Len(db'.processed_files) = Len(db.processed_files) + 1
              /\ {db'.processed_files[n] : n \in DOMAIN db'.processed_files} =
                   Ledger \cup {Fingerprint(cycle[p].i, cycle[p].j)}
         /\ Cardinality({db'.processed_files[n] : n \in DOMAIN db'.processed_files}) =
              Len(db'.processed_files)]_vars

\* A second mark_processed for a triple has returned: the triple is in the
\* ledger once.
C25_Witness ==
  /\ noop_marks # {}
  /\ noop_marks \subseteq Ledger
  /\ Cardinality(Ledger) = Len(db.processed_files)
  /\ \E p \in Callers :
       /\ cycle[p].results # <<>>
       /\ cycle[p].results[Len(cycle[p].results)].fp \in noop_marks

\* C26: every row of the ledger stays as it is in every step of every
\* caller, so the ledger only grows, and the step that looks a triple up
\* leaves the file and the open transaction as they are.
C26_LedgerWriteOnce ==
  [][/\ \A n \in DOMAIN db.processed_files :
          /\ n \in DOMAIN db'.processed_files
          /\ db'.processed_files[n] = db.processed_files[n]
     /\ Ledger \subseteq {db'.processed_files[n] : n \in DOMAIN db'.processed_files}
     /\ \A p \in Callers :
          (cycle[p].pc = "check" /\ cycle'[p] # cycle[p])
            => (db' = db /\ txn' = txn)]_vars

\* A cycle over both messages found every registry recorded and skipped it:
\* the ledger holds the three triples as before.
C26_Witness ==
  /\ Cardinality(Ledger) = 3
  /\ \A fp \in Ledger : ret_count[fp] = 1
  /\ \E p \in Callers :
       /\ cycle[p].pc = "finish"
       /\ cycle[p].n = 2
       /\ cycle[p].results = <<>>

\* C27: whatever the setting for empty registries, _send_report of a
\* registry without payments goes on to save_registry: its step opens the
\* write of the registry row.
C27_EmptyRegistryStored ==
  [][(/\ cycle["sched"].pc = "report"
      /\ cycle'["sched"] # cycle["sched"]
      /\ cycle["sched"].results[cycle["sched"].r].data.payments_count = 0)
       => /\ cycle'["sched"].pc = "save"
          /\ txn'.open
          /\ \E row \in txn'.db.registries :
               /\ row.date = cycle["sched"].results[cycle["sched"].r].data.date
               /\ row.payments_count = 0]_vars

\* C28: every payment row of the committed store has the id of a registry
\* row of the store.
C28_PaymentsOwned ==
  \A q \in db.payments : \E r \in db.registries : r.id = q.registry_id

\* C29: a text whose rows before the summary are well-formed but for rows
\* with fewer cells than the header is returned as a registry that holds at
\* least every well-formed row: a missing cell costs at most its own row.
C29_AbsentCellTolerated ==
  (/\ HasParsed
   /\ Structural(csv_input)
   /\ \A k \in DOMAIN DataPrefix(csv_input.rows) :
        DataPrefix(csv_input.rows)[k] \in WellFormed \cup {"short"}
   /\ \E k \in DOMAIN DataPrefix(csv_input.rows) :
        DataPrefix(csv_input.rows)[k] = "short")
    => /\ parse_result # None
       /\ \A k \in DOMAIN Accepted(csv_input.rows) :
            \E n \in DOMAIN parse_result.payments :
              parse_result.payments[n].payment_id = <<Accepted(csv_input.rows)[k]>>

\* The bytes do not decode, or the parser returns None for their text.
YieldsNoRegistry(content) ==
  \/ ~Files[content].decodable
  \/ parse_yookassa_csv(Files[content].text) = None

\* The fingerprints of the attachments that yield no registry.
NoRegistryFps ==
  {fp \in AllFingerprints : YieldsNoRegistry(ContentOf(fp))}

\* C30: an attachment that yields no registry is in no state in the ledger,
\* so the lookup of every later cycle lets it through to the parser again,
\* and it is in no result list, returned or being built, so that
\* files_processed, which grows by the length of the returned list, never
\* counts it.
C30_NoRegistryNotRecorded ==
  \A fp \in NoRegistryFps :
    /\ fp \notin Ledger
    /\ ~is_processed(db, fp.message_id, fp.filename, fp.file_hash)
    /\ ret_count[fp] = 0
    /\ \A p \in Callers : fp \notin ResultFps(cycle[p].results)
    /\ db.stats.files_processed <= cycles * Cardinality(AllFingerprints \ NoRegistryFps)

\* A second cycle has gone through both messages after the first recorded
\* the registry: the undecodable file and the text that is no registry were
\* parsed again and are in no ledger row and no result.
C30_Witness ==
  /\ mailbox = "unreadable"
  /\ Cardinality(NoRegistryFps) = 2
  /\ Cardinality(Ledger) = 1
  /\ db.stats.files_processed = 1
  /\ db.stats.emails_processed = 2
  /\ \E p \in Callers :
       /\ cycle[p].pc = "finish"
       /\ cycle[p].n = 2
       /\ cycle[p].results = <<>>

(***************************************************************************)
(* Rows are taken whole.                                                   *)
(***************************************************************************)
\* The identifier a row kind carries.
IdOfKind(kind) ==
  CASE kind = "p1" -> <<"p1">>
    [] kind = "p2" -> <<"p2">>
    [] kind = "bad_amount" -> <<"p3">>
    [] kind = "bad_commission" -> <<"p4">>
    [] kind = "short" -> <<"p5">>
    [] OTHER -> <<>>

RECURSIVE SumPaymentAmounts(_)
SumPaymentAmounts(payments) ==
  IF payments = <<>> THEN 0
  ELSE Head(payments).amount + SumPaymentAmounts(Tail(payments))

\* The commission of the row a payment came from, by its identifier.
RECURSIVE SumPaymentCommissions(_)
SumPaymentCommissions(payments) ==
  IF payments = <<>> THEN 0
  ELSE (IF Head(payments).payment_id = <<"p2">> THEN 10000 ELSE 0)
         + SumPaymentCommissions(Tail(payments))

\* C31: a row is accepted or rejected as a whole.  In every registry the
\* parser returns, no payment comes from a row whose amount or commission is
\* malformed, total_amount is the sum of the amounts of the payments of the
\* list and commission is the sum of the commissions of those same rows.
C31_RowTakenWhole ==
  (HasParsed /\ parse_result # None)
    => /\ \A k \in DOMAIN csv_input.rows :
            csv_input.rows[k] \in Malformed
              => \A n \in DOMAIN parse_result.payments :
                   parse_result.payments[n].payment_id # IdOfKind(csv_input.rows[k])
       /\ parse_result.total_amount = SumPaymentAmounts(parse_result.payments)
       /\ parse_result.commission = SumPaymentCommissions(parse_result.payments)
       /\ parse_result.payments_count = Len(parse_result.payments)

\* A row whose amount parses and whose commission does not, between two
\* payments.
C31_Witness ==
  /\ csv_input = [pre |-> "meta_date", header |-> "full",
                  rows |-> <<"p1", "bad_commission", "p2">>]
  /\ parse_result # NotParsed
  /\ parse_result # None
  /\ PaymentIds(parse_result) = << <<"p1">>, <<"p2">> >>
  /\ parse_result.total_amount = 133456
  /\ parse_result.commission = 10000

DateOfPre(pre) ==
  CASE pre \in {"meta_date", "date", "fifth_date", "two_dates"} -> <<"2026-01-15">>
    [] pre = "label_then_date" -> <<"2026-01-16">>
    [] pre = "date_time" -> <<"2026-01-15", " ", "10", ":", "00">>
    [] pre \in {"meta", "meta_meta", "none", "label_only", "late_date"} -> <<"unknown">>

\* C33: the date of every registry the parser returns is the trimmed text
\* after the first colon of the first of the first 5 lines that holds the
\* date label and a colon; a label on the 6th line is not used, nor is a
\* label without a colon, and the date is then "unknown".
C33_DateFromWindow ==
  (HasParsed /\ parse_result # None)
    => parse_result.date = DateOfPre(csv_input.pre)

\* The date line holds a second colon and ends in a blank.
C33_Witness ==
  /\ csv_input = [pre |-> "date_time", header |-> "full", rows |-> <<"p1", "p2">>]
  /\ parse_result # NotParsed
  /\ parse_result # None
  /\ parse_result.date = <<"2026-01-15", " ", "10", ":", "00">>

(***************************************************************************)
(* The roll-ups of the three queries against each other.                   *)
(***************************************************************************)
\* The fields the three answers share, and the column each sums.
TotalFields == {"total_income", "total_commission", "total_payments"}

ColumnOf(field) ==
  CASE field = "total_income" -> "total_amount"
    [] field = "total_commission" -> "commission"
    [] field = "total_payments" -> "payments_count"

\* A field of the monthly answers of a year, summed over months 1..month.
RECURSIVE SumMonthly(_, _, _, _)
SumMonthly(d, year, month, field) ==
  IF month = 0 THEN 0
  ELSE get_monthly_stats(d, year, month)[field].value
         + SumMonthly(d, year, month - 1, field)

\* A field of the yearly answers, summed over years.
RECURSIVE SumYearly(_, _, _)
SumYearly(d, years, field) ==
  IF years = {} THEN 0
  ELSE LET y == CHOOSE y \in years : TRUE
       IN  get_yearly_stats(d, y)[field].value + SumYearly(d, years \ {y}, field)

\* The registries stored under the sentinel date, and the store without them.
UnknownRegistries(d) == {r \in d.registries : r.date = <<"unknown">>}
WithoutUnknown(d) == [d EXCEPT !.registries = @ \ UnknownRegistries(d)]

Allowlisted(user) == user \in {101, 102}

\* C34: no update of a user outside the allowlist reaches the store or the
\* mail check.  The step that enters a handler for such a user admits
\* nothing and changes neither the store, the cycles, the confirmations nor
\* the answers read from the store; and while the last update is of such a
\* user, no cycle starts, no setting changes, nothing is confirmed, and the
\* only steps taken, but for the denial, are those of a manual check an admin
\* started earlier.
C34_NonAdminReachesNothing ==
  [][/\ (update' # update /\ ~Allowlisted(update'.user)) =>
          /\ ~update'.admitted
          /\ UNCHANGED <<db, txn, cycle, cycles, confirm_calls, answer, delivered>>
          /\ reply' \in {reply, "Access denied"}
     /\ (update' = update /\ ~Allowlisted(update.user) /\ update # NoUpdate) =>
          /\ cycles' = cycles
          /\ confirm_calls' = confirm_calls
          /\ db'.settings = db.settings
          /\ db'.registries = db.registries
          /\ answer' = answer
          /\ (db' # db \/ cycle' # cycle \/ reply' \notin {reply, "Access denied"})
               => InFlight("manual")]_vars

\* After an admin has switched the notifications off and has run a manual
\* check, another user asks for the switch: the answer is the denial and
\* the setting is as the admin left it.
C34_Witness ==
  /\ update = [data |-> "settings_toggle_notify", user |-> 999, admitted |-> FALSE]
  /\ reply = "Access denied"
  /\ db.settings["notify_empty_registries"] = "false"
  /\ cycles = 1
  /\ db.stats.emails_processed > 0

\* The store the handlers start from is one the scheduler leaves behind.
SchedulerStoreReached ==
  /\ db = SchedulerStore
  /\ delivered = 1
  /\ \A p \in Callers : ~InFlight(p)

\* The views whose fields the store is to provide: the main menu (from
\* /start and from the menu button), the statistics and the history.
StoreViews == {"start", "main_menu", "show_stats", "show_history"}

\* C36: the statistics, history and main-menu views never fail on a field or
\* an operation the store does not provide: while the last update is an
\* admin's request for one of them, the answer is no KeyError and no
\* AttributeError.
C36_ViewsRender ==
  (update.admitted /\ update.data \in StoreViews)
    => reply \notin {"KeyError", "AttributeError"}

=============================================================================
